---- MODULE Spec2Model ----
(***************************************************************************)
(* Model of the salish message bus: the endpoint registry and the dispatch *)
(* engine of MessageRouter (src/src/router.rs), the typed Endpoint and its *)
(* type-erased EndpointHandle (src/src/endpoint/), the Message envelope    *)
(* (src/src/message.rs) and the SourceFilter (src/src/filter.rs).          *)
(*                                                                         *)
(* Conventions.  Option<T> is a sequence of length 0 (None) or 1 (Some).   *)
(* A panic is a string naming the panic site, NoPanic when none happened.  *)
(* A public operation is one atomic action (a single-threaded caller).     *)
(***************************************************************************)
EXTENDS Integers, Sequences, FiniteSets, Bags, TLC

\* ------------------------------------------------------------------ bounds
\* Number of endpoints ever created (ENDPOINT_ID stays below it) under Spec,
\* which has every operation and every kind of message ...
MaxEndpoints == 2
\* ... and under SpecWide, which has neither filters, source tags, static
\* endpoints nor Endpoint-addressed messages.
MaxWide == 3
\* Width of the round-robin cursor (usize) in the model, scaled down from 64
\* so that wrapping_add's wrap-around is reachable.
UsizeBits == 2
\* Filters attached to one endpoint.
MaxFilters == 1
\* Endpoints registered through static_endpoint.
MaxStatic == 1
\* Largest value carried by a source tag.
MaxTagVal == 2

\* --------------------------------------------------------------- data model
\* Payload types (TypeId): the two payload types of src/src/test/endpoint.rs.
PayloadTypes == {"TestPayload", "BoxU32"}

\* MessagePayload: Unicast(Box<dyn UnicastPayload>) | Broadcast(Box<dyn BroadcastPayload>)
Flavors == {"Unicast", "Broadcast"}

\* Policy
Policies == {"RoundRobin", "Random"}

\* Source tags, after enum TestSource { Int, Unsigned, String } of
\* src/src/test/filter.rs.  ty is the Rust type of the tag, disc/val what its
\* derived Hash feeds to the hasher (enum discriminant, then the field).
RouterSource == "TestSource"

Tags == [ty : {RouterSource}, disc : 0 .. 2, val : 1 .. MaxTagVal]

Tag(d, v) == [ty |-> RouterSource, disc |-> d, val |-> v]

\* Panic sites.
NoPanic == "none"
PanicCloneUnicast == "Cannot clone messages with Unicast payload"
PanicSourceDowncast == "Message source downcast failed"
PanicPayloadDowncast == "Failed to downcast owned payload"
PanicNoHandler == "No message handler defined in Endpoint"

\* Destination<Addr>: Any(Policy) | Broadcast(Policy) | Endpoint(Addr).
\* The unused field of a variant holds a fixed filler.
DestAny(p) == [kind |-> "Any", policy |-> p, addr |-> 0]
DestBroadcast(p) == [kind |-> "Broadcast", policy |-> p, addr |-> 0]
DestEndpoint(a) == [kind |-> "Endpoint", policy |-> "RoundRobin", addr |-> a]

Destinations ==
  {DestAny(p) : p \in Policies} \cup {DestBroadcast(p) : p \in Policies}
    \cup {DestEndpoint(a) : a \in 0 .. MaxEndpoints}

\* Message::new_to(dest, payload) followed by an optional with_source.
NewMessage(src, dest, flavor, pty) ==
  [source |-> src, dest |-> dest,
   payload |-> [flavor |-> flavor, ty |-> pty, val |-> 1],
   is_clone |-> FALSE]

\* SalishMessageInternal::payload_type
payload_type(message) == message.payload.ty

\* Message::dest
Message_dest(message) == message.dest

\* ------------------------------------------------------------ source tags
\* A hash of the field alone, the enum discriminant left out.
source_hash_of_value_only(tag) == tag.val

\* DefaultHasher over the tag's derived Hash: the discriminant, then the
\* field.  The hasher is modelled as an injective encoding of that stream;
\* the Rust type of the tag is not part of the stream.
source_hash_of(tag) == tag.disc * (MaxTagVal + 1) + tag.val

\* Message::source_hash
source_hash(message) ==
  IF message.source # <<>> THEN <<source_hash_of(message.source[1])>> ELSE <<>>

\* A source() that answers None when the downcast fails.
Message_source_lenient(message) ==
  IF message.source # <<>> /\ message.source[1].ty = RouterSource
  THEN [val |-> message.source, panic |-> NoPanic]
  ELSE [val |-> <<>>, panic |-> NoPanic]

\* Message::source::<S>(): the tag downcast to the router's source type.
Message_source(message) ==
  IF message.source # <<>>
  THEN IF message.source[1].ty = RouterSource
       THEN [val |-> message.source, panic |-> NoPanic]
       ELSE [val |-> <<>>, panic |-> PanicSourceDowncast]
  ELSE [val |-> <<>>, panic |-> NoPanic]

\* A clone that duplicates unicast payloads too.
Message_clone_any(message) ==
  [val |-> <<[message EXCEPT !.is_clone = TRUE]>>, panic |-> NoPanic]

\* impl Clone for Message
Message_clone(message) ==
  IF message.payload.flavor = "Unicast"
  THEN [val |-> <<>>, panic |-> PanicCloneUnicast]
  ELSE [val |-> <<[message EXCEPT !.is_clone = TRUE]>>, panic |-> NoPanic]

\* SalishMessageInternal::into_inner::<T>()
into_inner(message, T) ==
  IF message.payload.ty = T
  THEN [val |-> <<message.payload>>, panic |-> NoPanic]
  ELSE [val |-> <<>>, panic |-> PanicPayloadDowncast]

\* ----------------------------------------------------------- SourceFilter
\* SourceFilter::default()
SourceFilter_default == [op |-> "Any", hashes |-> {}]

\* SourceFilter::add
SourceFilter_add(f, source) ==
  [f EXCEPT !.hashes = @ \cup {source_hash_of(source)}]

\* impl Filter for SourceFilter
SourceFilter_filter(f, message) ==
  LET hash == source_hash(message) IN
  IF hash # <<>> THEN hash[1] \in f.hashes ELSE FALSE

\* SourceFilter::default().add(t1).add(t2)... for the tags of a set.
RECURSIVE BuildFilter(_)
BuildFilter(tags) ==
  IF tags = {} THEN SourceFilter_default
  ELSE LET t == CHOOSE x \in tags : TRUE
       IN SourceFilter_add(BuildFilter(tags \ {t}), t)

\* ---------------------------------------------------------- EndpointInner
\* The callbacks an application registers: closures (source, payload) -> R.
Callbacks == {"inc", "const"}

ConstReturn == 8675309

\* Application of a registered closure.
CallbackApply(cb, source, payload) ==
  IF cb = "inc" THEN payload.val + 1 ELSE ConstReturn

\* EndpointInner::new
EndpointInner_new(M) == [mtype |-> M, callback |-> <<>>, filters |-> <<>>]

\* EndpointInner::filter: true when one of the endpoint's filters matches.
EndpointInner_filter(ep, message) ==
  \E i \in 1 .. Len(ep.filters) : SourceFilter_filter(ep.filters[i], message)

\* A handler that declines silently when no callback is registered.
on_message_silent(ep, source, payload) ==
  IF ep.callback # <<>>
  THEN [ret |-> <<CallbackApply(ep.callback[1], source, payload)>>, panic |-> NoPanic]
  ELSE [ret |-> <<>>, panic |-> NoPanic]

\* A registration that keeps a callback that is already there.
Endpoint_message_once(ep, f) ==
  IF ep.callback = <<>> THEN [ep EXCEPT !.callback = <<f>>] ELSE ep

\* Endpoint::message(f): inner.callback = Some(Box::new(f))
Endpoint_message(ep, f) == [ep EXCEPT !.callback = <<f>>]

\* impl MessageHandler for EndpointInner: on_message
on_message(ep, source, payload) ==
  IF ep.callback # <<>>
  THEN [ret |-> <<CallbackApply(ep.callback[1], source, payload)>>, panic |-> NoPanic]
  ELSE [ret |-> <<>>, panic |-> PanicNoHandler]

\* --------------------------------------------------------- EndpointHandle
\* EndpointHandle::new: the handle carries the endpoint's id; its two
\* closures act on the endpoint's shared inner state inn[endpoint_id].
EndpointHandle_new(id) == [endpoint_id |-> id]

\* A dispatch closure without the TypeId comparison.
Handle_callback_unchecked(inn, handle, source, message) ==
  LET ep == inn[handle.endpoint_id]
      p == into_inner(message, ep.mtype)
  IN IF p.panic # NoPanic
     THEN [ret |-> <<>>, invoked |-> <<>>, panic |-> p.panic]
     ELSE LET r == on_message(ep, source, p.val[1]) IN
          [ret |-> r.ret,
           invoked |-> IF r.panic = NoPanic
                       THEN <<[id |-> handle.endpoint_id, source |-> source,
                               payload |-> p.val[1], is_clone |-> message.is_clone]>>
                       ELSE <<>>,
           panic |-> r.panic]

\* The dispatch closure (handle.callback).  invoked lists the runs of the
\* registered callback: which endpoint, with which source, payload and envelope.
Handle_callback(inn, handle, source, message) ==
  LET ep == inn[handle.endpoint_id] IN
  IF ep.mtype # payload_type(message)
  THEN [ret |-> <<>>, invoked |-> <<>>, panic |-> NoPanic]
  ELSE LET p == into_inner(message, ep.mtype) IN
       IF p.panic # NoPanic
       THEN [ret |-> <<>>, invoked |-> <<>>, panic |-> p.panic]
       ELSE LET r == on_message(ep, source, p.val[1]) IN
            [ret |-> r.ret,
             invoked |-> IF r.panic = NoPanic
                         THEN <<[id |-> handle.endpoint_id, source |-> source,
                                 payload |-> p.val[1], is_clone |-> message.is_clone]>>
                         ELSE <<>>,
             panic |-> r.panic]

\* The filter closure (handle.filter).
Handle_filter(inn, handle, message) ==
  EndpointInner_filter(inn[handle.endpoint_id], message)

\* ------------------------------------------------------------- EndpointId
\* An allocator that hands out the same id again.
fetch_add_stuck(n) == n

\* ENDPOINT_ID.fetch_add(1, Relaxed): the value of the counter after the
\* call; the id handed out is the value before it.  The counter is a u64
\* whose wrap-around the bounds on the number of endpoints keep out of reach.
fetch_add(n) == n + 1

\* ----------------------------------------------------------- MessageRouter
\* HashMap::insert / HashMap::remove
MapInsert(map, k, v) == [x \in DOMAIN map \cup {k} |-> IF x = k THEN v ELSE map[x]]

MapRemove(map, k) == [x \in DOMAIN map \ {k} |-> map[x]]

\* impl Default for TypeHandler
TypeHandler_default == [handlers |-> <<>>, next_index |-> 0]

\* A cursor that is never advanced.
wrapping_add_stuck(n) == n

\* usize::wrapping_add(1) on the round-robin cursor.
wrapping_add(n) == (n + 1) % (2 ^ UsizeBits)

\* MessageRouter::num_endpoints
num_endpoints(eps) == Cardinality(DOMAIN eps)

\* MessageRouter::num_handlers: the sum of the handler-list lengths.
RECURSIVE SumLen(_, _)
SumLen(th, keys) ==
  IF keys = {} THEN 0
  ELSE LET k == CHOOSE x \in keys : TRUE
       IN Len(th[k].handlers) + SumLen(th, keys \ {k})

num_handlers(th) == SumLen(th, DOMAIN th)

\* A registration that leaves the identity map alone.
add_endpoint_handle_skipped(eps, handle) == eps

\* MessageRouter::add_endpoint_handle
add_endpoint_handle(eps, handle) == MapInsert(eps, handle.endpoint_id, handle)

\* A registration that puts the new handle in front of the list.
push_type_handler_front(th, M, handle) ==
  LET entry == IF M \in DOMAIN th THEN th[M] ELSE TypeHandler_default
  IN MapInsert(th, M, [entry EXCEPT !.handlers = <<handle>> \o @])

\* type_handlers.entry(message_type).or_default().handlers.push(handle)
push_type_handler(th, M, handle) ==
  LET entry == IF M \in DOMAIN th THEN th[M] ELSE TypeHandler_default
  IN MapInsert(th, M, [entry EXCEPT !.handlers = Append(@, handle)])

\* MessageRouter::remove_endpoint, on the identity map ...
remove_endpoint_id(eps, endpoint_id) == MapRemove(eps, endpoint_id)

\* The inner retain alone: an emptied TypeHandler stays in the map.
remove_endpoint_type_keep_empty(th, endpoint_id) ==
  [k \in DOMAIN th |->
     [th[k] EXCEPT !.handlers =
        SelectSeq(th[k].handlers, LAMBDA h : h.endpoint_id # endpoint_id)]]

\* The removal done with Vec::swap_remove in place of retain: the last
\* handle of the list moves into the place of the removed one.
remove_endpoint_type_swap(th, endpoint_id) ==
  LET swapped(hs) ==
        IF \E i \in 1 .. Len(hs) : hs[i].endpoint_id = endpoint_id
          THEN LET i == CHOOSE j \in 1 .. Len(hs) : hs[j].endpoint_id = endpoint_id
                   rest == SubSeq(hs, 1, Len(hs) - 1)
               IN IF i = Len(hs) THEN rest ELSE [rest EXCEPT ![i] = hs[Len(hs)]]
          ELSE hs
  IN [k \in {x \in DOMAIN th : swapped(th[x].handlers) # <<>>} |->
        [th[k] EXCEPT !.handlers = swapped(th[k].handlers)]]

\* ... and on the type map: the nested retain.
remove_endpoint_type(th, endpoint_id) ==
  LET kept(k) == SelectSeq(th[k].handlers, LAMBDA h : h.endpoint_id # endpoint_id)
  IN [k \in {x \in DOMAIN th : kept(x) # <<>>} |->
        [th[k] EXCEPT !.handlers = kept(k)]]

\* Outcome of a dispatch: the type map it leaves, Option<Vec<R>>, the
\* endpoints whose dispatch closure was called, the callback invocations
\* that ran, and the panic that ended it (NoPanic when it returned).
Outcome(th, result, called, invoked, panic) ==
  [th |-> th, result |-> result, called |-> called, invoked |-> invoked,
   panic |-> panic]

\* The handler is called and its return value dropped.
CallOne_drop(th, inn, handle, source, message) ==
  LET r == Handle_callback(inn, handle, source, message) IN
  Outcome(th, <<>>, <<handle.endpoint_id>>, r.invoked, r.panic)

\* (handle.callback)(source, message).map(|res| vec![res])
CallOne(th, inn, handle, source, message) ==
  LET r == Handle_callback(inn, handle, source, message) IN
  Outcome(th,
          IF r.ret # <<>> /\ r.panic = NoPanic THEN <<r.ret>> ELSE <<>>,
          <<handle.endpoint_id>>, r.invoked, r.panic)

\* A fan-out that stops after one handler.
CallEach_first(inn, handlers, i, source, message, acc) ==
  LET c == Message_clone(message) IN
  IF c.panic # NoPanic THEN [acc EXCEPT !.panic = c.panic]
  ELSE LET r == Handle_callback(inn, handlers[i], source, c.val[1])
       IN [tasks |-> acc.tasks \o r.ret,
           called |-> Append(acc.called, handlers[i].endpoint_id),
           invoked |-> acc.invoked \o r.invoked,
           panic |-> r.panic]

\* A fan-out that isolates a failing handler: it contributes no result and
\* the handlers after it are still called.
RECURSIVE CallEach_isolated(_, _, _, _, _, _)
CallEach_isolated(inn, handlers, i, source, message, acc) ==
  IF i > Len(handlers) THEN acc
  ELSE LET c == Message_clone(message) IN
       IF c.panic # NoPanic THEN [acc EXCEPT !.panic = c.panic]
       ELSE LET r == Handle_callback(inn, handlers[i], source, c.val[1])
                nxt == [tasks |-> acc.tasks \o r.ret,
                        called |-> Append(acc.called, handlers[i].endpoint_id),
                        invoked |-> acc.invoked \o r.invoked,
                        panic |-> NoPanic]
            IN CallEach_isolated(inn, handlers, i + 1, source, message, nxt)

\* A fan-out that collects the results in completion order of a last-in
\* first-out pool: each result goes to the front of the list.
RECURSIVE CallEach_reversed(_, _, _, _, _, _)
CallEach_reversed(inn, handlers, i, source, message, acc) ==
  IF i > Len(handlers) THEN acc
  ELSE LET c == Message_clone(message) IN
       IF c.panic # NoPanic THEN [acc EXCEPT !.panic = c.panic]
       ELSE LET r == Handle_callback(inn, handlers[i], source, c.val[1])
                nxt == [tasks |-> r.ret \o acc.tasks,
                        called |-> Append(acc.called, handlers[i].endpoint_id),
                        invoked |-> acc.invoked \o r.invoked,
                        panic |-> r.panic]
            IN IF r.panic # NoPanic THEN nxt
               ELSE CallEach_reversed(inn, handlers, i + 1, source, message, nxt)

\* handlers.iter().filter_map(|handler| (handler.callback)(source, message.clone()))
\* from the i-th handler on; acc holds the tasks collected so far.
RECURSIVE CallEach(_, _, _, _, _, _)
CallEach(inn, handlers, i, source, message, acc) ==
  IF i > Len(handlers) THEN acc
  ELSE LET c == Message_clone(message) IN
       IF c.panic # NoPanic THEN [acc EXCEPT !.panic = c.panic]
       ELSE LET r == Handle_callback(inn, handlers[i], source, c.val[1])
                nxt == [tasks |-> acc.tasks \o r.ret,
                        called |-> Append(acc.called, handlers[i].endpoint_id),
                        invoked |-> acc.invoked \o r.invoked,
                        panic |-> r.panic]
            IN IF r.panic # NoPanic THEN nxt
               ELSE CallEach(inn, handlers, i + 1, source, message, nxt)

\* MessageRouter::call_handlers
call_handlers(th, inn, message, handlers, policy) ==
  LET src == Message_source(message) IN
  IF src.panic # NoPanic THEN Outcome(th, <<>>, <<>>, <<>>, src.panic)
  ELSE IF Len(handlers) = 0 THEN Outcome(th, <<>>, <<>>, <<>>, NoPanic)
  ELSE IF Len(handlers) = 1 THEN CallOne(th, inn, handlers[1], src.val, message)
  ELSE LET r == CallEach(inn, handlers, 1, src.val, message,
                         [tasks |-> <<>>, called |-> <<>>, invoked |-> <<>>,
                          panic |-> NoPanic])
       IN Outcome(th,
                  IF r.panic # NoPanic \/ r.tasks = <<>> THEN <<>> ELSE <<r.tasks>>,
                  r.called, r.invoked, r.panic)

\* The last matching handle instead of the first.
FirstMatch_last(inn, handlers, message) ==
  LET hits == {i \in 1 .. Len(handlers) : Handle_filter(inn, handlers[i], message)}
  IN IF hits = {} THEN 0 ELSE CHOOSE i \in hits : \A j \in hits : i >= j

\* Index (from 1) of the first handle whose filter matches, 0 when none does.
FirstMatch(inn, handlers, message) ==
  LET hits == {i \in 1 .. Len(handlers) : Handle_filter(inn, handlers[i], message)}
  IN IF hits = {} THEN 0 ELSE CHOOSE i \in hits : \A j \in hits : i <= j

\* A dispatch_any that answers Some(vec![]) when the type has no entry.
dispatch_any_empty_list(th, inn, message, policy, rnd) ==
  IF payload_type(message) \in DOMAIN th
  THEN LET ty == payload_type(message)
           type_handler == th[ty]
           src == Message_source(message)
           hit == IF src.val # <<>>
                  THEN FirstMatch(inn, type_handler.handlers, message) ELSE 0
       IN IF src.panic # NoPanic THEN Outcome(th, <<>>, <<>>, <<>>, src.panic)
          ELSE IF hit # 0
          THEN CallOne(th, inn, type_handler.handlers[hit], src.val, message)
          ELSE IF policy = "RoundRobin"
          THEN LET index == type_handler.next_index % Len(type_handler.handlers)
                   th2 == [th EXCEPT ![ty].next_index = wrapping_add(@)]
               IN CallOne(th2, inn, type_handler.handlers[index + 1], src.val, message)
          ELSE CallOne(th, inn, type_handler.handlers[rnd + 1], src.val, message)
  ELSE Outcome(th, << <<>> >>, <<>>, <<>>, NoPanic)

\* A dispatch_any in which a source tag that no filter matches is declined.
dispatch_any_filters_exclude(th, inn, message, policy, rnd) ==
  IF payload_type(message) \in DOMAIN th
  THEN LET ty == payload_type(message)
           type_handler == th[ty]
           src == Message_source(message)
           hit == IF src.val # <<>>
                  THEN FirstMatch(inn, type_handler.handlers, message) ELSE 0
       IN IF src.panic # NoPanic THEN Outcome(th, <<>>, <<>>, <<>>, src.panic)
          ELSE IF hit # 0
          THEN CallOne(th, inn, type_handler.handlers[hit], src.val, message)
          ELSE IF src.val # <<>> THEN Outcome(th, <<>>, <<>>, <<>>, NoPanic)
          ELSE IF policy = "RoundRobin"
          THEN LET index == type_handler.next_index % Len(type_handler.handlers)
                   th2 == [th EXCEPT ![ty].next_index = wrapping_add(@)]
               IN CallOne(th2, inn, type_handler.handlers[index + 1], src.val, message)
          ELSE CallOne(th, inn, type_handler.handlers[rnd + 1], src.val, message)
  ELSE Outcome(th, <<>>, <<>>, <<>>, NoPanic)

\* A dispatch_any whose Random arm takes the first handle whatever is drawn.
dispatch_any_random_first(th, inn, message, policy, rnd) ==
  IF payload_type(message) \in DOMAIN th
  THEN LET ty == payload_type(message)
           type_handler == th[ty]
           src == Message_source(message)
           hit == IF src.val # <<>>
                  THEN FirstMatch(inn, type_handler.handlers, message) ELSE 0
       IN IF src.panic # NoPanic THEN Outcome(th, <<>>, <<>>, <<>>, src.panic)
          ELSE IF hit # 0
          THEN CallOne(th, inn, type_handler.handlers[hit], src.val, message)
          ELSE IF policy = "RoundRobin"
          THEN LET index == type_handler.next_index % Len(type_handler.handlers)
                   th2 == [th EXCEPT ![ty].next_index = wrapping_add(@)]
               IN CallOne(th2, inn, type_handler.handlers[index + 1], src.val, message)
          ELSE CallOne(th, inn, type_handler.handlers[1], src.val, message)
  ELSE Outcome(th, <<>>, <<>>, <<>>, NoPanic)

\* A dispatch_any whose Random arm advances the cursor as well.
dispatch_any_random_advances(th, inn, message, policy, rnd) ==
  IF payload_type(message) \in DOMAIN th
  THEN LET ty == payload_type(message)
           type_handler == th[ty]
           src == Message_source(message)
           hit == IF src.val # <<>>
                  THEN FirstMatch(inn, type_handler.handlers, message) ELSE 0
           th2 == [th EXCEPT ![ty].next_index = wrapping_add(@)]
       IN IF src.panic # NoPanic THEN Outcome(th, <<>>, <<>>, <<>>, src.panic)
          ELSE IF hit # 0
          THEN CallOne(th, inn, type_handler.handlers[hit], src.val, message)
          ELSE IF policy = "RoundRobin"
          THEN LET index == type_handler.next_index % Len(type_handler.handlers)
               IN CallOne(th2, inn, type_handler.handlers[index + 1], src.val, message)
          ELSE CallOne(th2, inn, type_handler.handlers[rnd + 1], src.val, message)
  ELSE Outcome(th, <<>>, <<>>, <<>>, NoPanic)

\* MessageRouter::dispatch_any; rnd is the index ThreadRng::gen_range draws.
dispatch_any(th, inn, message, policy, rnd) ==
  IF payload_type(message) \in DOMAIN th
  THEN LET ty == payload_type(message)
           type_handler == th[ty]
           src == Message_source(message)
           hit == IF src.val # <<>>
                  THEN FirstMatch(inn, type_handler.handlers, message) ELSE 0
       IN IF src.panic # NoPanic THEN Outcome(th, <<>>, <<>>, <<>>, src.panic)
          ELSE IF hit # 0
          THEN CallOne(th, inn, type_handler.handlers[hit], src.val, message)
          ELSE IF policy = "RoundRobin"
          THEN LET index == type_handler.next_index % Len(type_handler.handlers)
                   th2 == [th EXCEPT ![ty].next_index = wrapping_add(@)]
               IN CallOne(th2, inn, type_handler.handlers[index + 1], src.val, message)
          ELSE CallOne(th, inn, type_handler.handlers[rnd + 1], src.val, message)
  ELSE Outcome(th, <<>>, <<>>, <<>>, NoPanic)

\* A broadcast that never delegates to dispatch_any.
dispatch_broadcast_direct(th, inn, message, policy, rnd) ==
  IF payload_type(message) \in DOMAIN th
  THEN call_handlers(th, inn, message, th[payload_type(message)].handlers, policy)
  ELSE Outcome(th, <<>>, <<>>, <<>>, NoPanic)

\* MessageRouter::dispatch_broadcast
dispatch_broadcast(th, inn, message, policy, rnd) ==
  IF payload_type(message) \in DOMAIN th
  THEN LET type_handler == th[payload_type(message)] IN
       IF Len(type_handler.handlers) = 1
       THEN dispatch_any(th, inn, message, policy, rnd)
       ELSE call_handlers(th, inn, message, type_handler.handlers, policy)
  ELSE Outcome(th, <<>>, <<>>, <<>>, NoPanic)

\* Endpoint-addressed messages routed by payload type, the address ignored.
handle_message_by_type(eps, th, inn, message, rnd) ==
  LET dest == Message_dest(message) IN
  IF dest.kind = "Broadcast"
  THEN dispatch_broadcast(th, inn, message, dest.policy, rnd)
  ELSE dispatch_any(th, inn, message, dest.policy, rnd)

\* An unknown address falls back to delivery by payload type.
handle_message_fallback(eps, th, inn, message, rnd) ==
  LET dest == Message_dest(message) IN
  IF dest.kind = "Any" THEN dispatch_any(th, inn, message, dest.policy, rnd)
  ELSE IF dest.kind = "Broadcast"
  THEN dispatch_broadcast(th, inn, message, dest.policy, rnd)
  ELSE IF dest.addr \in DOMAIN eps
  THEN LET src == Message_source(message) IN
       IF src.panic # NoPanic THEN Outcome(th, <<>>, <<>>, <<>>, src.panic)
       ELSE CallOne(th, inn, eps[dest.addr], src.val, message)
  ELSE dispatch_any(th, inn, message, dest.policy, rnd)

\* MessageRouter::handle_message
handle_message(eps, th, inn, message, rnd) ==
  LET dest == Message_dest(message) IN
  IF dest.kind = "Any" THEN dispatch_any(th, inn, message, dest.policy, rnd)
  ELSE IF dest.kind = "Broadcast"
  THEN dispatch_broadcast(th, inn, message, dest.policy, rnd)
  ELSE IF dest.addr \in DOMAIN eps
  THEN LET src == Message_source(message) IN
       IF src.panic # NoPanic THEN Outcome(th, <<>>, <<>>, <<>>, src.panic)
       ELSE CallOne(th, inn, eps[dest.addr], src.val, message)
  ELSE Outcome(th, <<>>, <<>>, <<>>, NoPanic)

\* The indices gen_range(0..handlers.len()) can draw in this dispatch; a
\* dispatch that draws none is given the single index 0.
RandomRange(th, message) ==
  IF /\ Message_dest(message).kind \in {"Any", "Broadcast"}
     /\ Message_dest(message).policy = "Random"
     /\ payload_type(message) \in DOMAIN th
     /\ \/ Message_dest(message).kind = "Any"
        \/ Len(th[payload_type(message)].handlers) = 1
  THEN 0 .. Len(th[payload_type(message)].handlers) - 1
  ELSE {0}

\* ------------------------------------------------------------------ state
VARIABLES
  ENDPOINT_ID,       \* the process-wide id counter (endpoint/mod.rs:24)
  endpoints,         \* MessageRouter.endpoints: EndpointId -> EndpointHandle
  type_handlers,     \* MessageRouter.type_handlers: TypeId -> TypeHandler
  static_endpoints,  \* MessageRouter.static_endpoints: ids of the boxed endpoints
  inner,             \* the shared EndpointInner of every endpoint that exists
  hist,              \* history: ids in allocation order, callbacks passed to message()
  routers,           \* the MessageRouter values the application holds, when there are several
  arc_endpoints,     \* their Arc<RwLock<HashMap<EndpointId, EndpointHandle>>> allocations
  arc_type_handlers, \* their Arc<RwLock<HashMap<TypeId, TypeHandler>>> allocations
  objects,           \* the Endpoint objects the application holds: id -> Option<router>
  owned,             \* ids of the router-bound Endpoint objects the application holds
  last,              \* Option: the latest handle_message call and its outcome
  rr_run,            \* the latest consecutive source-less Any(RoundRobin) calls of one type
  sf,                \* a SourceFilter under construction and its latest evaluation
  locks,             \* the RwLocks around the endpoints map and the type_handlers map
  threads            \* the threads sharing a router through clones: where each one is

vars == <<ENDPOINT_ID, endpoints, type_handlers, static_endpoints, inner, hist, owned,
          routers, arc_endpoints, arc_type_handlers, objects, last, rr_run, sf,
          locks, threads>>

\* The state of a program with several routers and router clones.
multi == <<routers, arc_endpoints, arc_type_handlers, objects>>

\* The registry locks and the threads that take them.
conc == <<locks, threads>>

\* The state of a program with one router.
single == <<endpoints, type_handlers, static_endpoints, owned, rr_run>>

registry == <<ENDPOINT_ID, endpoints, type_handlers, static_endpoints, inner, hist, owned,
              multi>>

EmptyMap == [x \in {} |-> x]

NoRun == [ty |-> <<>>, calls |-> <<>>]

\* Nothing allocated, no callback registered, none replaced, no endpoint
\* created with an owning router, registry snapshots not recorded.
NoHistory ==
  [allocated |-> <<>>, registered |-> EmptyMap, replaced |-> {}, bound |-> {},
   seen |-> <<>>]

\* RwLock::new: no writer (0), no reader, no writer waiting for the readers
\* to leave (claimed 0).  The holders are thread numbers.
RwLock_new == [writer |-> 0, readers |-> {}, claimed |-> 0]

\* Arc::new(RwLock::new(HashMap::new())) for both maps.
\* inner: the per-endpoint mutexes that are locked, as <<endpoint id, thread>>.
NoLocks == [endpoints |-> RwLock_new, type_handlers |-> RwLock_new, inner |-> {}]

\* MessageRouter::new, no endpoint created yet, SourceFilter::default().
Init ==
  /\ ENDPOINT_ID = 0
  /\ endpoints = EmptyMap
  /\ type_handlers = EmptyMap
  /\ static_endpoints = <<>>
  /\ inner = EmptyMap
  /\ hist = NoHistory
  /\ owned = {}
  /\ routers = <<>>
  /\ arc_endpoints = EmptyMap
  /\ arc_type_handlers = EmptyMap
  /\ objects = EmptyMap
  /\ last = <<>>
  /\ rr_run = NoRun
  /\ sf = [filter |-> SourceFilter_default, added |-> {}, applied |-> <<>>]
  /\ locks = NoLocks
  /\ threads = <<>>

\* --------------------------------------------------------------- inputs
\* Source tags carried by the messages dispatched through the router: two
\* tags with the same value in different variants.
DispatchTags == {Tag(0, 1), Tag(1, 1)}

\* The tag sets endpoint filters are built from.
FilterChoices == {{Tag(0, 1)}}

Messages ==
  {NewMessage(src, dest, flavor, pty) :
     src \in {<<>>} \cup {<<t>> : t \in DispatchTags},
     dest \in Destinations, flavor \in Flavors, pty \in PayloadTypes}

\* ------------------------------------------------------------- operations
\* MessageRouter::create_endpoint::<M>() = Endpoint::new(Some(router.clone())):
\* allocate the id, build the inner state, register in both maps.
CreateEndpoint(M, cap) ==
  /\ last = <<>>
  /\ ENDPOINT_ID < cap
  /\ LET id == ENDPOINT_ID
         handle == EndpointHandle_new(id)
     IN /\ ENDPOINT_ID' = fetch_add(ENDPOINT_ID)
        /\ inner' = MapInsert(inner, id, EndpointInner_new(M))
        /\ endpoints' = add_endpoint_handle(endpoints, handle)
        /\ type_handlers' = push_type_handler(type_handlers, M, handle)
        /\ owned' = owned \cup {id}
        /\ hist' = [hist EXCEPT !.allocated = Append(@, id)]
  /\ rr_run' = NoRun
  /\ UNCHANGED <<static_endpoints, multi, last, sf, conc>>

\* Endpoint::message(f): register (replace) the callback.  With track, the
\* history also records that a callback was replaced by another one.
RegisterCallback(id, f, track) ==
  /\ last = <<>>
  /\ id \in owned \cup DOMAIN objects
  /\ inner' = [inner EXCEPT ![id] = Endpoint_message(@, f)]
  /\ hist' = [hist EXCEPT
                !.registered = MapInsert(@, id, f),
                !.replaced = IF track /\ inner[id].callback \notin {<<>>, <<f>>}
                             THEN @ \cup {id} ELSE @]
  /\ rr_run' = NoRun
  /\ UNCHANGED <<ENDPOINT_ID, endpoints, type_handlers, static_endpoints, owned, multi, last, sf, conc>>

EndpointMessage(id, f) == RegisterCallback(id, f, FALSE)

\* Endpoint::filter(filter): append a filter.
EndpointFilter(id, tags) ==
  /\ last = <<>>
  /\ id \in owned
  /\ Len(inner[id].filters) < MaxFilters
  /\ inner' = [inner EXCEPT ![id].filters = Append(@, BuildFilter(tags))]
  /\ rr_run' = NoRun
  /\ UNCHANGED <<ENDPOINT_ID, endpoints, type_handlers, static_endpoints, hist, owned, multi, last, sf, conc>>

\* impl Drop for Endpoint (router = Some): remove_endpoint(id); the handles
\* and with them the inner state are released.
DropEndpoint(id) ==
  /\ last = <<>>
  /\ id \in owned
  /\ endpoints' = remove_endpoint_id(endpoints, id)
  /\ type_handlers' = remove_endpoint_type(type_handlers, id)
  /\ owned' = owned \ {id}
  /\ inner' = MapRemove(inner, id)
  /\ hist' = [hist EXCEPT !.registered = MapRemove(@, id), !.replaced = @ \ {id}]
  /\ rr_run' = NoRun
  /\ UNCHANGED <<ENDPOINT_ID, static_endpoints, multi, last, sf, conc>>

\* MessageRouter::static_endpoint::<M>(f): Endpoint::new(None).message(f),
\* registered in both maps and boxed into static_endpoints.
StaticEndpoint(M, f) ==
  /\ last = <<>>
  /\ ENDPOINT_ID < MaxEndpoints
  /\ Len(static_endpoints) < MaxStatic
  /\ LET id == ENDPOINT_ID
         handle == EndpointHandle_new(id)
     IN /\ ENDPOINT_ID' = fetch_add(ENDPOINT_ID)
        /\ inner' = MapInsert(inner, id, Endpoint_message(EndpointInner_new(M), f))
        /\ endpoints' = add_endpoint_handle(endpoints, handle)
        /\ type_handlers' = push_type_handler(type_handlers, M, handle)
        /\ static_endpoints' = Append(static_endpoints, id)
        /\ hist' = [hist EXCEPT !.allocated = Append(@, id),
                                !.registered = MapInsert(@, id, f)]
  /\ rr_run' = NoRun
  /\ UNCHANGED <<owned, multi, last, sf, conc>>

\* A call counts for rr_run when it is a source-less Any(RoundRobin)
\* dispatch that found a type entry and returned.
IsRoundRobinCall(message, th, out) ==
  /\ Message_dest(message) = DestAny("RoundRobin")
  /\ message.source = <<>>
  /\ payload_type(message) \in DOMAIN th
  /\ out.panic = NoPanic

\* rr_run keeps as many calls as one type can have endpoints.
MaxRun == IF MaxEndpoints > MaxWide THEN MaxEndpoints ELSE MaxWide

\* The last n elements of a sequence.
LastN(seq, n) ==
  IF Len(seq) <= n THEN seq ELSE SubSeq(seq, Len(seq) - n + 1, Len(seq))

\* MessageRouter::handle_message(message)
HandleMessage(message) ==
  /\ last = <<>>
  /\ \E rnd \in RandomRange(type_handlers, message) :
      LET out == handle_message(endpoints, type_handlers, inner, message, rnd)
          ty == payload_type(message)
      IN /\ type_handlers' = out.th
         /\ last' = <<[msg |-> message, pre |-> type_handlers,
                       result |-> out.result, called |-> out.called,
                       invoked |-> out.invoked, panic |-> out.panic]>>
         /\ rr_run' =
              IF IsRoundRobinCall(message, type_handlers, out)
              THEN LET call == [id |-> out.called[1],
                                cursor |-> type_handlers[ty].next_index]
                   IN [ty |-> <<ty>>,
                       calls |-> LastN((IF rr_run.ty = <<ty>> THEN rr_run.calls ELSE <<>>)
                                         \o <<call>>, MaxRun)]
              ELSE NoRun
  /\ UNCHANGED <<ENDPOINT_ID, endpoints, static_endpoints, inner, hist, owned, multi, sf, conc>>

\* The caller takes the Option<Vec<R>> that handle_message returned (or the
\* panic is observed); the next operation starts after that.
TakeResult ==
  /\ last # <<>>
  /\ last' = <<>>
  /\ UNCHANGED <<registry, rr_run, sf, conc>>

Next ==
  \/ \E M \in PayloadTypes : CreateEndpoint(M, MaxEndpoints)
  \/ \E id \in owned, f \in Callbacks : EndpointMessage(id, f)
  \/ \E id \in owned, tags \in FilterChoices : EndpointFilter(id, tags)
  \/ \E id \in owned : DropEndpoint(id)
  \/ \E M \in PayloadTypes, f \in Callbacks : StaticEndpoint(M, f)
  \/ \E message \in Messages : HandleMessage(message)
  \/ TakeResult

Spec == Init /\ [][Next]_vars

\* ------------------------------------------- more endpoints, fewer features
\* Source-less Any and Broadcast messages of every policy, flavour and type.
WideMessages ==
  {NewMessage(<<>>, dest, flavor, pty) :
     dest \in {DestAny(p) : p \in Policies} \cup {DestBroadcast(p) : p \in Policies},
     flavor \in Flavors, pty \in PayloadTypes}

NextWide ==
  \/ \E M \in PayloadTypes : CreateEndpoint(M, MaxWide)
  \/ \E id \in owned, f \in Callbacks : EndpointMessage(id, f)
  \/ \E id \in owned : DropEndpoint(id)
  \/ \E message \in WideMessages : HandleMessage(message)
  \/ TakeResult

SpecWide == Init /\ [][NextWide]_vars

\* ------------------------------------------------- callbacks being replaced
\* Broadcast-capable TestPayload messages, source-less or tagged, to any
\* destination under the RoundRobin policy.
ReplaceMessages ==
  {NewMessage(src, dest, "Broadcast", "TestPayload") :
     src \in {<<>>, <<Tag(0, 1)>>},
     dest \in {DestAny("RoundRobin"), DestBroadcast("RoundRobin")}
                \cup {DestEndpoint(a) : a \in 0 .. MaxEndpoints}}

NextReplace ==
  \/ \E M \in PayloadTypes : CreateEndpoint(M, MaxEndpoints)
  \/ \E id \in owned, f \in Callbacks : RegisterCallback(id, f, TRUE)
  \/ \E id \in owned, tags \in FilterChoices : EndpointFilter(id, tags)
  \/ \E id \in owned : DropEndpoint(id)
  \/ \E message \in ReplaceMessages : HandleMessage(message)
  \/ TakeResult

SpecReplace == Init /\ [][NextReplace]_vars

\* ------------------------------------------------ a rotation that goes on
\* Source-less Any messages of one payload type, under both policies.
RotationMessages ==
  {NewMessage(<<>>, DestAny(p), "Broadcast", "TestPayload") : p \in Policies}

\* handle_message of a source-less Any(RoundRobin) message of the type.
RoundRobinDispatch ==
  HandleMessage(NewMessage(<<>>, DestAny("RoundRobin"), "Broadcast", "TestPayload"))

NextRotation ==
  \/ CreateEndpoint("TestPayload", MaxWide)
  \/ \E id \in owned : EndpointMessage(id, "inc")
  \/ \E id \in owned : DropEndpoint(id)
  \/ \E message \in RotationMessages : HandleMessage(message)
  \/ TakeResult

\* The application goes on for ever: every handle_message call returns to
\* its caller, and Any(RoundRobin) messages of the type keep being
\* dispatched, whatever else is done in between.
RotationGoesOn == WF_vars(TakeResult) /\ SF_vars(RoundRobinDispatch)

SpecRotation == Init /\ [][NextRotation]_vars /\ RotationGoesOn

\* ------------------------------------------------- removal by endpoint id
\* router.remove_endpoint(endpoint_id), called by the application with any
\* id: of a live endpoint (whose object stays with its owner), of an endpoint
\* already removed, or of an id never allocated.
RouterRemoveEndpoint(endpoint_id) ==
  /\ last = <<>>
  /\ endpoints' = remove_endpoint_id(endpoints, endpoint_id)
  /\ type_handlers' = remove_endpoint_type(type_handlers, endpoint_id)
  /\ hist' = [hist EXCEPT !.registered = MapRemove(@, endpoint_id),
                          !.replaced = @ \ {endpoint_id}]
  /\ rr_run' = NoRun
  /\ UNCHANGED <<ENDPOINT_ID, static_endpoints, inner, owned, multi, last, sf, conc>>

\* Source-less round-robin messages of both payload types: they move the
\* cursors that a removal has to leave alone.
RemoveMessages ==
  {NewMessage(<<>>, DestAny("RoundRobin"), "Broadcast", pty) : pty \in PayloadTypes}

NextRemove ==
  \/ \E M \in PayloadTypes : CreateEndpoint(M, MaxWide)
  \/ \E id \in owned : EndpointMessage(id, "inc")
  \/ \E id \in owned : DropEndpoint(id)
  \/ \E endpoint_id \in 0 .. MaxWide : RouterRemoveEndpoint(endpoint_id)
  \/ \E message \in RemoveMessages : HandleMessage(message)
  \/ TakeResult

SpecRemove == Init /\ [][NextRemove]_vars

\* ------------------------------------------- a tag of another source type
\* with_source(321u32) on a router whose source type is TestSource: the tag
\* is a plain integer, of a type the router's downcast does not accept.
ForeignTag == [ty |-> "u32", disc |-> 0, val |-> 1]

\* Messages tagged with the foreign tag or with a tag of the router's type,
\* to every destination.
ForeignMessages ==
  {NewMessage(<<t>>, dest, flavor, pty) :
     t \in {ForeignTag, Tag(0, 1)},
     dest \in Destinations, flavor \in Flavors, pty \in PayloadTypes}

NextForeign ==
  \/ \E M \in PayloadTypes : CreateEndpoint(M, MaxEndpoints)
  \/ \E id \in owned : EndpointMessage(id, "inc")
  \/ \E id \in owned, tags \in FilterChoices : EndpointFilter(id, tags)
  \/ \E id \in owned : DropEndpoint(id)
  \/ \E message \in ForeignMessages : HandleMessage(message)
  \/ TakeResult

SpecForeign == Init /\ [][NextForeign]_vars

\* ------------------------------------------- several routers, router clones
\* Endpoints ever created when there are several routers.
MaxMulti == 2

\* Longest handler list that add_endpoint is called on.
MaxDup == 2

\* MessageRouter::new, its two maps allocated at address a.
MessageRouter_new(a) ==
  [endpoints |-> a, type_handlers |-> a, static_endpoints |-> << <<>> >>]

\* A clone that copies the two maps into new allocations.
MessageRouter_clone_deep(router, fresh) ==
  [endpoints |-> fresh, type_handlers |-> fresh, static_endpoints |-> <<>>]

\* impl Clone for MessageRouter: Arc::clone of the two maps, static_endpoints
\* None.  fresh is the address a new allocation would get.
MessageRouter_clone(router, fresh) ==
  [endpoints |-> router.endpoints, type_handlers |-> router.type_handlers,
   static_endpoints |-> <<>>]

\* The allocations after a clone of the map at src has address dst: the map
\* is shared when dst = src.
AfterClone(arcs, src, dst) ==
  IF dst \in DOMAIN arcs THEN arcs ELSE MapInsert(arcs, dst, arcs[src])

\* The address a new allocation would get.
FreshArc == Cardinality(DOMAIN arc_endpoints) + 1

\* Ids held in the static_endpoints of the routers.
StaticIds(rts) ==
  UNION {{rts[r].static_endpoints[1][i] : i \in 1 .. Len(rts[r].static_endpoints[1])} :
           r \in {x \in 1 .. Len(rts) : rts[x].static_endpoints # <<>>}}

\* An endpoint id has a handle in some map.
IsRegistered(ae, at, id) ==
  \/ \E a \in DOMAIN ae : id \in DOMAIN ae[a]
  \/ \E a \in DOMAIN at : \E T \in DOMAIN at[a] :
       \E i \in 1 .. Len(at[a][T].handlers) : at[a][T].handlers[i].endpoint_id = id

\* The inner states some Arc still points to: those of the Endpoint objects
\* that exist and those of the handles in the maps.
Referenced(map, objs, rts, ae, at) ==
  [id \in {x \in DOMAIN map :
             x \in DOMAIN objs \/ x \in StaticIds(rts) \/ IsRegistered(ae, at, x)}
     |-> map[id]]

\* let a = MessageRouter::new(); let b = a.clone(); let c = MessageRouter::new();
InitMulti ==
  LET a == MessageRouter_new(0)
      b == MessageRouter_clone(a, 1)
      c == MessageRouter_new(2)
  IN /\ routers = <<a, b, c>>
     /\ arc_endpoints = [x \in {0, b.endpoints, 2} |-> EmptyMap]
     /\ arc_type_handlers = [x \in {0, b.type_handlers, 2} |-> EmptyMap]
     /\ objects = EmptyMap
     /\ ENDPOINT_ID = 0
     /\ endpoints = EmptyMap
     /\ type_handlers = EmptyMap
     /\ static_endpoints = <<>>
     /\ inner = EmptyMap
     /\ hist = NoHistory
     /\ owned = {}
     /\ last = <<>>
     /\ rr_run = NoRun
     /\ sf = [filter |-> SourceFilter_default, added |-> {}, applied |-> <<>>]
     /\ locks = NoLocks
     /\ threads = <<>>

\* routers[r].create_endpoint::<M>() = Endpoint::new(Some(router.clone())),
\* which registers through its clone of the router.
CreateEndpointVia(r, M) ==
  /\ last = <<>>
  /\ ENDPOINT_ID < MaxMulti
  /\ LET id == ENDPOINT_ID
         handle == EndpointHandle_new(id)
         c == MessageRouter_clone(routers[r], FreshArc)
         ae == AfterClone(arc_endpoints, routers[r].endpoints, c.endpoints)
         at == AfterClone(arc_type_handlers, routers[r].type_handlers, c.type_handlers)
     IN /\ ENDPOINT_ID' = fetch_add(ENDPOINT_ID)
        /\ inner' = MapInsert(inner, id, EndpointInner_new(M))
        /\ arc_endpoints' = [ae EXCEPT ![c.endpoints] = add_endpoint_handle(@, handle)]
        /\ arc_type_handlers' =
             [at EXCEPT ![c.type_handlers] = push_type_handler(@, M, handle)]
        /\ objects' = MapInsert(objects, id, <<c>>)
        /\ hist' = [hist EXCEPT !.allocated = Append(@, id)]
  /\ UNCHANGED <<routers, single, last, sf, conc>>

\* Endpoint::new(None): an endpoint without owning router, registered nowhere.
StandaloneEndpoint(M) ==
  /\ last = <<>>
  /\ ENDPOINT_ID < MaxMulti
  /\ LET id == ENDPOINT_ID
     IN /\ ENDPOINT_ID' = fetch_add(ENDPOINT_ID)
        /\ inner' = MapInsert(inner, id, EndpointInner_new(M))
        /\ objects' = MapInsert(objects, id, <<>>)
        /\ hist' = [hist EXCEPT !.allocated = Append(@, id)]
  /\ UNCHANGED <<routers, arc_endpoints, arc_type_handlers, single, last, sf, conc>>

\* routers[r].add_endpoint(&endpoint), called by the application.
AddEndpoint(r, id) ==
  /\ last = <<>>
  /\ id \in DOMAIN objects
  /\ LET M == inner[id].mtype
         handle == EndpointHandle_new(id)
         at == arc_type_handlers[routers[r].type_handlers]
     IN /\ M \in DOMAIN at => Len(at[M].handlers) < MaxDup
        /\ arc_endpoints' =
             [arc_endpoints EXCEPT ![routers[r].endpoints] = add_endpoint_handle(@, handle)]
        /\ arc_type_handlers' =
             [arc_type_handlers EXCEPT
                ![routers[r].type_handlers] = push_type_handler(@, M, handle)]
  /\ UNCHANGED <<ENDPOINT_ID, inner, hist, routers, objects, single, last, sf, conc>>

\* routers[r].remove_endpoint(endpoint_id), called by the application.
RemoveEndpoint(r, endpoint_id) ==
  /\ last = <<>>
  /\ arc_endpoints' =
       [arc_endpoints EXCEPT ![routers[r].endpoints] = remove_endpoint_id(@, endpoint_id)]
  /\ arc_type_handlers' =
       [arc_type_handlers EXCEPT
          ![routers[r].type_handlers] = remove_endpoint_type(@, endpoint_id)]
  /\ inner' = Referenced(inner, objects, routers, arc_endpoints', arc_type_handlers')
  /\ hist' = [hist EXCEPT
                !.registered =
                   Referenced(@, objects, routers, arc_endpoints', arc_type_handlers')]
  /\ UNCHANGED <<ENDPOINT_ID, routers, objects, single, last, sf, conc>>

\* impl Drop for Endpoint: remove_endpoint through the endpoint's own router
\* clone, nothing for an endpoint without router.
DropEndpointObject(id) ==
  /\ last = <<>>
  /\ id \in DOMAIN objects
  /\ IF objects[id] # <<>>
     THEN LET router == objects[id][1] IN
          /\ arc_endpoints' =
               [arc_endpoints EXCEPT ![router.endpoints] = remove_endpoint_id(@, id)]
          /\ arc_type_handlers' =
               [arc_type_handlers EXCEPT
                  ![router.type_handlers] = remove_endpoint_type(@, id)]
     ELSE UNCHANGED <<arc_endpoints, arc_type_handlers>>
  /\ objects' = MapRemove(objects, id)
  /\ inner' = Referenced(inner, objects', routers, arc_endpoints', arc_type_handlers')
  /\ hist' = [hist EXCEPT
                !.registered =
                   Referenced(@, objects', routers, arc_endpoints', arc_type_handlers')]
  /\ UNCHANGED <<ENDPOINT_ID, routers, single, last, sf, conc>>

\* routers[r].static_endpoint::<M>(f): Endpoint::new(None).message(f) is
\* registered in both maps; the router keeps the endpoint when it has a
\* static_endpoints list, otherwise the endpoint is dropped on return.
StaticEndpointVia(r, M, f) ==
  /\ last = <<>>
  /\ ENDPOINT_ID < MaxMulti
  /\ StaticIds(routers) = {}
  /\ LET id == ENDPOINT_ID
         handle == EndpointHandle_new(id)
     IN /\ ENDPOINT_ID' = fetch_add(ENDPOINT_ID)
        /\ inner' = MapInsert(inner, id, Endpoint_message(EndpointInner_new(M), f))
        /\ arc_endpoints' =
             [arc_endpoints EXCEPT ![routers[r].endpoints] = add_endpoint_handle(@, handle)]
        /\ arc_type_handlers' =
             [arc_type_handlers EXCEPT
                ![routers[r].type_handlers] = push_type_handler(@, M, handle)]
        /\ routers' = IF routers[r].static_endpoints # <<>>
                      THEN [routers EXCEPT ![r].static_endpoints[1] = Append(@, id)]
                      ELSE routers
        /\ hist' = [hist EXCEPT !.allocated = Append(@, id),
                                !.registered = MapInsert(@, id, f)]
  /\ UNCHANGED <<objects, single, last, sf, conc>>

\* routers[r].handle_message(message)
HandleMessageVia(r, message) ==
  /\ last = <<>>
  /\ LET eps == arc_endpoints[routers[r].endpoints]
         th == arc_type_handlers[routers[r].type_handlers]
     IN \E rnd \in RandomRange(th, message) :
          LET out == handle_message(eps, th, inner, message, rnd)
          IN /\ arc_type_handlers' =
                  [arc_type_handlers EXCEPT ![routers[r].type_handlers] = out.th]
             /\ last' = <<[msg |-> message, pre |-> th,
                           result |-> out.result, called |-> out.called,
                           invoked |-> out.invoked, panic |-> out.panic, via |-> r]>>
  /\ UNCHANGED <<ENDPOINT_ID, inner, hist, routers, arc_endpoints, objects, single, sf, conc>>

\* The payload type and the callback used with several routers.
MultiTypes == {"TestPayload"}

MultiCallbacks == {"inc"}

\* Source-less broadcast-capable messages under the RoundRobin policy.
MultiMessages ==
  {NewMessage(<<>>, dest, "Broadcast", pty) :
     dest \in {DestAny("RoundRobin"), DestBroadcast("RoundRobin")}
                \cup {DestEndpoint(a) : a \in 0 .. MaxMulti - 1},
     pty \in MultiTypes}

NextMulti ==
  \/ \E r \in 1 .. Len(routers), M \in MultiTypes : CreateEndpointVia(r, M)
  \/ \E M \in MultiTypes : StandaloneEndpoint(M)
  \/ \E r \in 1 .. Len(routers), id \in DOMAIN objects : AddEndpoint(r, id)
  \/ \E r \in 1 .. Len(routers), id \in 0 .. MaxMulti - 1 : RemoveEndpoint(r, id)
  \/ \E id \in DOMAIN objects, f \in MultiCallbacks : RegisterCallback(id, f, FALSE)
  \/ \E id \in DOMAIN objects : DropEndpointObject(id)
  \/ \E r \in 1 .. Len(routers), M \in MultiTypes, f \in MultiCallbacks :
       StaticEndpointVia(r, M, f)
  \/ \E r \in 1 .. Len(routers), message \in MultiMessages : HandleMessageVia(r, message)
  \/ TakeResult

SpecMulti == InitMulti /\ [][NextMulti]_vars

\* ------------------------------------------- threads and the registry locks
\* Threads that share one registry, each through its own clone of the router
\* (handle_message takes &mut self), and the endpoints they create.
MaxThreads == 2

MaxLockEndpoints == 2

Threads == 1 .. MaxThreads

\* RwLock::write() of thread t returns once no writer and no reader holds
\* the lock and no other writer has claimed it.
RwLock_can_write(lock, t) ==
  lock.writer = 0 /\ lock.readers = {} /\ lock.claimed \in {0, t}

\* RwLock::read() returns once no writer holds or has claimed the lock.
RwLock_can_read(lock) == lock.writer = 0 /\ lock.claimed = 0

\* write() while readers hold the lock: the writer claims the lock, which
\* keeps new readers out, and waits for the readers to leave.
RwLock_claim(lock, t) == [lock EXCEPT !.claimed = t]

\* The lock after a write guard that thread t held for one statement.
RwLock_released(lock, t) == [lock EXCEPT !.claimed = IF @ = t THEN 0 ELSE @]

\* A write guard that is dropped before the handler is called.
RwLock_write_dropped(lock, t) == lock

\* The guard returned by write(), kept by thread t.
RwLock_write(lock, t) == [lock EXCEPT !.writer = t, !.claimed = 0]

\* The guard returned by read(), kept by thread t.
RwLock_read(lock, t) == [lock EXCEPT !.readers = @ \cup {t}]

\* A mutex that hands out its guard while another guard is alive.
Mutex_can_lock_shared(held, id) == TRUE

\* inner.write() on the ParkingLotMutex of endpoint id returns once no
\* guard of that mutex is alive.
Mutex_can_lock(held, id) == ~ \E g \in held : g[1] = id

\* The guard of the mutex of endpoint id, kept by thread t.
Mutex_lock(held, id, t) == held \cup {<<id, t>>}

\* A guard that is leaked instead of dropped.
Mutex_unlock_leaked(held, id, t) == held

\* The guard is dropped.
Mutex_unlock(held, id, t) == held \ {<<id, t>>}

\* What a dispatch has produced so far: Option<Vec<R>>, the callback runs, the panic.
NoOut == [result |-> <<>>, invoked |-> <<>>, panic |-> NoPanic]

\* Where a thread is inside a closure of an endpoint handle: pc "none"
\* outside of it; id is the endpoint an operation started by the callback
\* works on.
NoCallback == [pc |-> "none", id |-> <<>>]

\* A thread between two operations; out is what its latest dispatch returned.
Idle(out) ==
  [pc |-> "idle", op |-> "none", msg |-> <<>>, id |-> <<>>, i |-> 0, out |-> out,
   cb |-> NoCallback, arg |-> "none"]

\* A thread inside operation op, at pc, working on endpoint id.
Busy(pc, op, id) ==
  [pc |-> pc, op |-> op, msg |-> <<>>, id |-> <<id>>, i |-> 0, out |-> NoOut,
   cb |-> NoCallback, arg |-> "none"]

\* The variables no thread touches.
apart == <<static_endpoints, multi, last, rr_run, sf>>

\* One router, cloned into every thread; nothing registered yet.
InitLock ==
  /\ ENDPOINT_ID = 0
  /\ endpoints = EmptyMap
  /\ type_handlers = EmptyMap
  /\ static_endpoints = <<>>
  /\ inner = EmptyMap
  /\ hist = NoHistory
  /\ owned = {}
  /\ routers = <<>>
  /\ arc_endpoints = EmptyMap
  /\ arc_type_handlers = EmptyMap
  /\ objects = EmptyMap
  /\ last = <<>>
  /\ rr_run = NoRun
  /\ sf = [filter |-> SourceFilter_default, added |-> {}, applied |-> <<>>]
  /\ locks = NoLocks
  /\ threads = [t \in Threads |-> Idle(NoOut)]

\* Some thread is inside operation op on endpoint id.
InProgress(op, id) ==
  \E t \in Threads : threads[t].op = op /\ threads[t].id = <<id>>

\* Number of handles of endpoint id in the handler list of its type.
HandlesOf(th, M, id) ==
  IF M \in DOMAIN th
  THEN Len(SelectSeq(th[M].handlers, LAMBDA h : h.endpoint_id = id))
  ELSE 0

\* The inner state stays allocated while the Endpoint object, a handle in
\* either map or a thread working on the endpoint holds its Arc.
InnerHeld(eps, th, own, thr, id) ==
  \/ id \in own
  \/ id \in DOMAIN eps
  \/ \E M \in DOMAIN th : HandlesOf(th, M, id) > 0
  \/ \E t \in Threads : thr[t].id = <<id>>

\* The endpoints registered for payload type M.
RegisteredFor(th, M) ==
  IF M \in DOMAIN th
  THEN {th[M].handlers[i].endpoint_id : i \in 1 .. Len(th[M].handlers)}
  ELSE {}

\* The history after a step that leaves the threads as thr and the type map
\* as th.  When snapshots are recorded, h.seen[1][t] holds, for a thread t
\* inside handle_message, the sets of endpoints that have been registered
\* for its message's payload type at the instants since the call.
Observed(h, thr, th) ==
  IF h.seen = <<>> THEN h
  ELSE [h EXCEPT !.seen =
          <<[t \in Threads |->
               IF thr[t].op = "dispatch"
               THEN h.seen[1][t] \cup {RegisteredFor(th, payload_type(thr[t].msg[1]))}
               ELSE {}]>>]

\* handle_message, entered through the thread's clone: match message.dest()
StartDispatch(t, message) ==
  /\ threads[t].pc = "idle"
  /\ LET kind == Message_dest(message).kind
         pc == IF kind = "Any" THEN "dispatch_any"
               ELSE IF kind = "Broadcast" THEN "dispatch_broadcast"
               ELSE "dispatch_endpoint"
     IN threads' = [threads EXCEPT ![t] =
                      [pc |-> pc, op |-> "dispatch", msg |-> <<message>>,
                       id |-> <<>>, i |-> 0, out |-> NoOut,
                       cb |-> NoCallback, arg |-> "none"]]
  /\ hist' = Observed(hist, threads', type_handlers)
  /\ UNCHANGED <<ENDPOINT_ID, endpoints, type_handlers, inner, owned, apart, locks>>

\* dispatch_any up to the handler call: type_handlers.write().get_mut(type),
\* the handle chosen and the cursor advanced; the write guard stays held.
\* Without an entry for the type the guard is released and None returned.
DispatchAnyLock(t) ==
  /\ threads[t].pc = "dispatch_any"
  /\ RwLock_can_write(locks.type_handlers, t)
  /\ LET message == threads[t].msg[1]
         ty == payload_type(message)
         policy == Message_dest(message).policy
     IN IF ty \in DOMAIN type_handlers
        THEN \E rnd \in (IF policy = "Random"
                         THEN 0 .. Len(type_handlers[ty].handlers) - 1 ELSE {0}) :
               LET out == dispatch_any(type_handlers, inner, message, policy, rnd)
               IN /\ type_handlers' = out.th
                  /\ locks' = [locks EXCEPT !.type_handlers = RwLock_write(@, t)]
                  /\ threads' = [threads EXCEPT ![t].pc = "any_call",
                                                ![t].id = <<out.called[1]>>]
        ELSE /\ threads' = [threads EXCEPT ![t] = Idle(NoOut)]
             /\ locks' = [locks EXCEPT !.type_handlers = RwLock_released(@, t)]
             /\ UNCHANGED type_handlers
  /\ UNCHANGED <<ENDPOINT_ID, endpoints, inner, hist, owned, apart>>

\* (handle.callback)(source, message).map(|res| vec![res]) under the write
\* guard, which is released when dispatch_any returns or unwinds; the
\* closure's guard of the endpoint's mutex is dropped first.
DispatchAnyReturn(t) ==
  /\ threads[t].pc = "any_call"
  /\ LET message == threads[t].msg[1]
         handle == EndpointHandle_new(threads[t].id[1])
         r == CallOne(type_handlers, inner, handle, Message_source(message).val, message)
     IN threads' = [threads EXCEPT ![t] =
                      Idle([result |-> r.result, invoked |-> r.invoked, panic |-> r.panic])]
  /\ locks' = [locks EXCEPT !.type_handlers.writer = 0,
                            !.inner = Mutex_unlock(@, threads[t].id[1], t)]
  /\ UNCHANGED <<registry, last, rr_run, sf>>

\* dispatch_broadcast up to the first handler call: type_handlers.read() and
\* the lookup.  One handle: the read guard is dropped and dispatch_any
\* called.  Several: call_handlers runs under the read guard.
DispatchBroadcastLock(t) ==
  /\ threads[t].pc = "dispatch_broadcast"
  /\ RwLock_can_read(locks.type_handlers)
  /\ LET ty == payload_type(threads[t].msg[1]) IN
     IF ty \notin DOMAIN type_handlers
     THEN /\ threads' = [threads EXCEPT ![t] = Idle(NoOut)]
          /\ UNCHANGED locks
     ELSE IF Len(type_handlers[ty].handlers) = 1
     THEN /\ threads' = [threads EXCEPT ![t].pc = "dispatch_any"]
          /\ UNCHANGED locks
     ELSE /\ threads' = [threads EXCEPT
                           ![t].pc = "call_handlers", ![t].i = 1,
                           ![t].id = <<type_handlers[ty].handlers[1].endpoint_id>>]
          /\ locks' = [locks EXCEPT !.type_handlers = RwLock_read(@, t)]
  /\ UNCHANGED <<registry, last, rr_run, sf>>

\* call_handlers, one handler of the fan-out: message.clone() and the
\* handler call, at whose end the closure drops its guard of the endpoint's
\* mutex.  After the last handler, or on a panic, the read guard is released.
CallHandler(t) ==
  /\ threads[t].pc = "call_handlers"
  /\ LET message == threads[t].msg[1]
         handlers == type_handlers[payload_type(message)].handlers
         i == threads[t].i
         acc == threads[t].out
         c == Message_clone(message)
         r == Handle_callback(inner, handlers[i], Message_source(message).val, c.val[1])
         tasks == (IF acc.result = <<>> THEN <<>> ELSE acc.result[1]) \o r.ret
         out == [result |-> IF tasks = <<>> \/ r.panic # NoPanic THEN <<>> ELSE <<tasks>>,
                 invoked |-> acc.invoked \o r.invoked,
                 panic |-> r.panic]
         unlocked == Mutex_unlock(locks.inner, threads[t].id[1], t)
         release == [locks EXCEPT !.type_handlers.readers = @ \ {t},
                                  !.inner = unlocked]
     IN IF c.panic # NoPanic
        THEN /\ threads' = [threads EXCEPT ![t] = Idle([acc EXCEPT !.result = <<>>,
                                                                   !.panic = c.panic])]
             /\ locks' = release
        ELSE IF r.panic # NoPanic \/ i = Len(handlers)
        THEN /\ threads' = [threads EXCEPT ![t] = Idle(out)]
             /\ locks' = release
        ELSE /\ threads' = [threads EXCEPT
                              ![t].i = i + 1, ![t].out = out,
                              ![t].id = <<handlers[i + 1].endpoint_id>>,
                              ![t].cb = NoCallback]
             /\ locks' = [locks EXCEPT !.inner = unlocked]
  /\ UNCHANGED <<registry, last, rr_run, sf>>

\* Destination::Endpoint up to the handler call: endpoints.read().get(addr);
\* the read guard is a temporary of the if-let and lives through its body.
DispatchEndpointLock(t) ==
  /\ threads[t].pc = "dispatch_endpoint"
  /\ RwLock_can_read(locks.endpoints)
  /\ LET addr == Message_dest(threads[t].msg[1]).addr IN
     IF addr \in DOMAIN endpoints
     THEN /\ threads' = [threads EXCEPT ![t].pc = "endpoint_call", ![t].id = <<addr>>]
          /\ locks' = [locks EXCEPT !.endpoints = RwLock_read(@, t)]
     ELSE /\ threads' = [threads EXCEPT ![t] = Idle(NoOut)]
          /\ UNCHANGED locks
  /\ UNCHANGED <<registry, last, rr_run, sf>>

\* (handle.callback)(source, message).map(|res| vec![res]) under the read guard.
DispatchEndpointReturn(t) ==
  /\ threads[t].pc = "endpoint_call"
  /\ LET message == threads[t].msg[1]
         r == CallOne(type_handlers, inner, endpoints[threads[t].id[1]],
                      Message_source(message).val, message)
     IN threads' = [threads EXCEPT ![t] =
                      Idle([result |-> r.result, invoked |-> r.invoked, panic |-> r.panic])]
  /\ locks' = [locks EXCEPT !.endpoints.readers = @ \ {t},
                            !.inner = Mutex_unlock(@, threads[t].id[1], t)]
  /\ UNCHANGED <<registry, last, rr_run, sf>>

\* create_endpoint::<M>() = Endpoint::new(Some(self.clone())), up to the
\* registration: the id is drawn and the inner state built.
CreateStart(t, M) ==
  /\ threads[t].pc = "idle"
  /\ ENDPOINT_ID < MaxLockEndpoints
  /\ LET id == ENDPOINT_ID IN
     /\ ENDPOINT_ID' = fetch_add(ENDPOINT_ID)
     /\ inner' = MapInsert(inner, id, EndpointInner_new(M))
     /\ hist' = [hist EXCEPT !.allocated = Append(@, id), !.bound = @ \cup {id}]
     /\ threads' = [threads EXCEPT ![t] = Busy("insert_identity", "create", id)]
  /\ UNCHANGED <<endpoints, type_handlers, owned, apart, locks>>

\* Endpoint::new(None): an endpoint without owning router, registered nowhere.
StandaloneNew(t, M) ==
  /\ threads[t].pc = "idle"
  /\ ENDPOINT_ID < MaxLockEndpoints
  /\ LET id == ENDPOINT_ID IN
     /\ ENDPOINT_ID' = fetch_add(ENDPOINT_ID)
     /\ inner' = MapInsert(inner, id, EndpointInner_new(M))
     /\ hist' = [hist EXCEPT !.allocated = Append(@, id)]
     /\ owned' = owned \cup {id}
  /\ UNCHANGED <<endpoints, type_handlers, apart, conc>>

\* router.add_endpoint(&endpoint) called by the application; the endpoint
\* is borrowed until it returns.
AddEndpointStart(t, id) ==
  /\ threads[t].pc = "idle"
  /\ id \in owned
  /\ ~InProgress("add", id)
  /\ HandlesOf(type_handlers, inner[id].mtype, id) < MaxDup
  /\ threads' = [threads EXCEPT ![t] = Busy("insert_identity", "add", id)]
  /\ UNCHANGED <<registry, last, rr_run, sf, locks>>

\* add_endpoint, first statement: self.endpoints.write().insert(id, handle)
InsertIdentity(t) ==
  /\ threads[t].pc = "insert_identity"
  /\ RwLock_can_write(locks.endpoints, t)
  /\ endpoints' = add_endpoint_handle(endpoints, EndpointHandle_new(threads[t].id[1]))
  /\ threads' = [threads EXCEPT ![t].pc = "push_type"]
  /\ locks' = [locks EXCEPT !.endpoints = RwLock_released(@, t)]
  /\ UNCHANGED <<ENDPOINT_ID, type_handlers, inner, hist, owned, apart>>

\* add_endpoint, second statement: type_handlers.write().entry(type)
\* .or_default().handlers.push(handle); create_endpoint then hands the
\* Endpoint to its caller.
PushType(t) ==
  /\ threads[t].pc = "push_type"
  /\ RwLock_can_write(locks.type_handlers, t)
  /\ LET id == threads[t].id[1] IN
     /\ type_handlers' = push_type_handler(type_handlers, inner[id].mtype,
                                           EndpointHandle_new(id))
     /\ owned' = IF threads[t].op = "create" THEN owned \cup {id} ELSE owned
  /\ threads' = [threads EXCEPT ![t] = Idle(NoOut)]
  /\ hist' = Observed(hist, threads', type_handlers')
  /\ locks' = [locks EXCEPT !.type_handlers = RwLock_released(@, t)]
  /\ UNCHANGED <<ENDPOINT_ID, endpoints, inner, apart>>

\* Endpoint::message(f) by the thread that holds the endpoint.
ThreadMessage(t, id, f) ==
  /\ threads[t].pc = "idle"
  /\ id \in owned
  /\ ~InProgress("add", id)
  /\ RegisterCallback(id, f, FALSE)

\* drop(endpoint): with an owning router, remove_endpoint(self.id) through
\* it; without one, nothing.
DropStart(t, id) ==
  /\ threads[t].pc = "idle"
  /\ id \in owned
  /\ ~InProgress("add", id)
  /\ owned' = owned \ {id}
  /\ IF id \in hist.bound
     THEN /\ threads' = [threads EXCEPT ![t] = Busy("remove_identity", "drop", id)]
          /\ UNCHANGED inner
     ELSE /\ inner' = IF InnerHeld(endpoints, type_handlers, owned', threads, id)
                      THEN inner ELSE MapRemove(inner, id)
          /\ UNCHANGED threads
  /\ UNCHANGED <<ENDPOINT_ID, endpoints, type_handlers, hist, apart, locks>>

\* router.remove_endpoint(endpoint_id) called by the application.
RemoveEndpointStart(t, endpoint_id) ==
  /\ threads[t].pc = "idle"
  /\ endpoint_id < ENDPOINT_ID
  /\ threads' = [threads EXCEPT ![t] = Busy("remove_identity", "remove", endpoint_id)]
  /\ UNCHANGED <<registry, last, rr_run, sf, locks>>

\* remove_endpoint, first statement: self.endpoints.write().remove(&endpoint_id)
RemoveIdentity(t) ==
  /\ threads[t].pc = "remove_identity"
  /\ RwLock_can_write(locks.endpoints, t)
  /\ endpoints' = remove_endpoint_id(endpoints, threads[t].id[1])
  /\ threads' = [threads EXCEPT ![t].pc = "retain_type"]
  /\ locks' = [locks EXCEPT !.endpoints = RwLock_released(@, t)]
  /\ UNCHANGED <<ENDPOINT_ID, type_handlers, inner, hist, owned, apart>>

\* remove_endpoint, second statement: the nested retain under
\* type_handlers.write().  The last handle gone, the inner state is freed.
RetainType(t) ==
  /\ threads[t].pc = "retain_type"
  /\ RwLock_can_write(locks.type_handlers, t)
  /\ LET id == threads[t].id[1] IN
     /\ type_handlers' = remove_endpoint_type(type_handlers, id)
     /\ threads' = [threads EXCEPT ![t] = Idle(NoOut)]
     /\ inner' = IF InnerHeld(endpoints, type_handlers', owned, threads', id)
                 THEN inner ELSE MapRemove(inner, id)
  /\ hist' = Observed(hist, threads', type_handlers')
  /\ locks' = [locks EXCEPT !.type_handlers = RwLock_released(@, t)]
  /\ UNCHANGED <<ENDPOINT_ID, endpoints, owned, apart>>

\* Source-less broadcast-capable messages of one payload type.  Under the
\* Random policy dispatch_any can select every handle of the list.
LockMessages ==
  {NewMessage(<<>>, dest, "Broadcast", "TestPayload") :
     dest \in {DestAny("Random"), DestBroadcast("Random")}
                \cup {DestEndpoint(a) : a \in 0 .. MaxLockEndpoints - 1}}

NextLock ==
  \/ \E t \in Threads, message \in LockMessages : StartDispatch(t, message)
  \/ \E t \in Threads : DispatchAnyLock(t)
  \/ \E t \in Threads : DispatchAnyReturn(t)
  \/ \E t \in Threads : DispatchBroadcastLock(t)
  \/ \E t \in Threads : CallHandler(t)
  \/ \E t \in Threads : DispatchEndpointLock(t)
  \/ \E t \in Threads : DispatchEndpointReturn(t)
  \/ \E t \in Threads : CreateStart(t, "TestPayload")
  \/ \E t \in Threads : StandaloneNew(t, "TestPayload")
  \/ \E t \in Threads, id \in owned : AddEndpointStart(t, id)
  \/ \E t \in Threads : InsertIdentity(t)
  \/ \E t \in Threads : PushType(t)
  \/ \E t \in Threads, id \in owned : ThreadMessage(t, id, "inc")
  \/ \E t \in Threads, id \in owned : DropStart(t, id)
  \/ \E t \in Threads, id \in 0 .. MaxLockEndpoints - 1 : RemoveEndpointStart(t, id)
  \/ \E t \in Threads : RemoveIdentity(t)
  \/ \E t \in Threads : RetainType(t)

SpecLock == InitLock /\ [][NextLock]_vars

\* Programs that register through create_endpoint and deregister by
\* dropping only: no call of the public add_endpoint or remove_endpoint.
NextLifecycle ==
  \/ \E t \in Threads, message \in LockMessages : StartDispatch(t, message)
  \/ \E t \in Threads : DispatchAnyLock(t)
  \/ \E t \in Threads : DispatchAnyReturn(t)
  \/ \E t \in Threads : DispatchBroadcastLock(t)
  \/ \E t \in Threads : CallHandler(t)
  \/ \E t \in Threads : DispatchEndpointLock(t)
  \/ \E t \in Threads : DispatchEndpointReturn(t)
  \/ \E t \in Threads : CreateStart(t, "TestPayload")
  \/ \E t \in Threads : InsertIdentity(t)
  \/ \E t \in Threads : PushType(t)
  \/ \E t \in Threads, id \in owned : ThreadMessage(t, id, "inc")
  \/ \E t \in Threads, id \in owned : DropStart(t, id)
  \/ \E t \in Threads : RemoveIdentity(t)
  \/ \E t \in Threads : RetainType(t)

SpecLifecycle == InitLock /\ [][NextLifecycle]_vars

\* The same programs, with the registry snapshots of every dispatch recorded.
InitSnapshots ==
  /\ ENDPOINT_ID = 0
  /\ endpoints = EmptyMap
  /\ type_handlers = EmptyMap
  /\ static_endpoints = <<>>
  /\ inner = EmptyMap
  /\ hist = [NoHistory EXCEPT !.seen = <<[t \in Threads |-> {}]>>]
  /\ owned = {}
  /\ routers = <<>>
  /\ arc_endpoints = EmptyMap
  /\ arc_type_handlers = EmptyMap
  /\ objects = EmptyMap
  /\ last = <<>>
  /\ rr_run = NoRun
  /\ sf = [filter |-> SourceFilter_default, added |-> {}, applied |-> <<>>]
  /\ locks = NoLocks
  /\ threads = [t \in Threads |-> Idle(NoOut)]

SpecSnapshots == InitSnapshots /\ [][NextLifecycle]_vars

\* ------------------------------------------------ the per-endpoint mutex
\* The closures of a handle and the owner's builder calls lock the mutex
\* around the endpoint's inner state (Lock = anylock::ParkingLotMutex).
\* Each operation is split at every lock acquisition.

\* The callbacks registered here: "inc" returns; "create" calls
\* create_endpoint on a clone of its own router; "drop" drops an endpoint
\* of that router that the application holds.
InnerCallbacks == {"inc", "create", "drop"}

\* The callback of endpoint id, as registered now, calls back into the router.
CallsBack(inn, own, id) ==
  \/ inn[id].callback = <<"create">>
  \/ inn[id].callback = <<"drop">> /\ own # {}

\* The messages of LockMessages and one with a source tag, for which
\* dispatch_any consults the filters.
InnerMessages ==
  LockMessages
    \cup {NewMessage(<<Tag(0, 1)>>, DestAny("Random"), "Broadcast", "TestPayload")}

\* A write() that finds readers in the lock: endpoints.write() of
\* add_endpoint and remove_endpoint, type_handlers.write() of both and of
\* dispatch_any.  The thread claims the lock and waits.
WriteClaim(t) ==
  LET pc == IF threads[t].cb.pc = "none" THEN threads[t].pc ELSE threads[t].cb.pc
      lock == IF pc \in {"insert_identity", "remove_identity"}
              THEN locks.endpoints ELSE locks.type_handlers
  IN /\ pc \in {"insert_identity", "remove_identity", "push_type", "retain_type",
                 "dispatch_any"}
     /\ lock.writer = 0 /\ lock.claimed = 0 /\ lock.readers # {}
     /\ locks' = IF pc \in {"insert_identity", "remove_identity"}
                 THEN [locks EXCEPT !.endpoints = RwLock_claim(@, t)]
                 ELSE [locks EXCEPT !.type_handlers = RwLock_claim(@, t)]
     /\ UNCHANGED <<registry, threads, last, rr_run, sf>>

\* dispatch_any, the if-let: type_handlers.write().get_mut(type).  With an
\* entry the write guard stays held; a message with a source goes through
\* the filters first.
AnyWrite(t) ==
  /\ threads[t].pc = "dispatch_any"
  /\ RwLock_can_write(locks.type_handlers, t)
  /\ LET message == threads[t].msg[1]
         ty == payload_type(message)
     IN IF ty \in DOMAIN type_handlers
        THEN /\ locks' = [locks EXCEPT !.type_handlers = RwLock_write(@, t)]
             /\ threads' =
                  IF Message_source(message).val # <<>>
                     /\ Len(type_handlers[ty].handlers) > 0
                  THEN [threads EXCEPT
                          ![t].pc = "any_filters", ![t].i = 1,
                          ![t].id = <<type_handlers[ty].handlers[1].endpoint_id>>]
                  ELSE [threads EXCEPT ![t].pc = "any_select"]
        ELSE /\ threads' = [threads EXCEPT ![t] = Idle(NoOut)]
             /\ locks' = [locks EXCEPT !.type_handlers = RwLock_released(@, t)]
  /\ UNCHANGED <<registry, last, rr_run, sf>>

\* The filter closure of the i-th handle is entered: let guard = inner.write()
EvalFilterLock(t) ==
  /\ threads[t].pc = "any_filters"
  /\ threads[t].cb.pc = "none"
  /\ Mutex_can_lock(locks.inner, threads[t].id[1])
  /\ locks' = [locks EXCEPT !.inner = Mutex_lock(@, threads[t].id[1], t)]
  /\ threads' = [threads EXCEPT ![t].cb.pc = "filter"]
  /\ UNCHANGED <<registry, last, rr_run, sf>>

\* guard.filter(message) and the end of the filter closure.  A match ends
\* the loop with this handle; after the last handle the policy decides.
EvalFilterReturn(t) ==
  /\ threads[t].pc = "any_filters"
  /\ threads[t].cb.pc = "filter"
  /\ LET message == threads[t].msg[1]
         handlers == type_handlers[payload_type(message)].handlers
         i == threads[t].i
     IN threads' =
          IF Handle_filter(inner, handlers[i], message)
          THEN [threads EXCEPT ![t].pc = "any_call", ![t].cb = NoCallback]
          ELSE IF i < Len(handlers)
          THEN [threads EXCEPT ![t].i = i + 1, ![t].cb = NoCallback,
                               ![t].id = <<handlers[i + 1].endpoint_id>>]
          ELSE [threads EXCEPT ![t].pc = "any_select", ![t].cb = NoCallback]
  /\ locks' = [locks EXCEPT !.inner = Mutex_unlock(@, threads[t].id[1], t)]
  /\ UNCHANGED <<registry, last, rr_run, sf>>

\* dispatch_any, match policy: the handle is chosen as for a message
\* without source, and the round-robin cursor advanced.
AnySelect(t) ==
  /\ threads[t].pc = "any_select"
  /\ LET message == [threads[t].msg[1] EXCEPT !.source = <<>>]
         policy == Message_dest(message).policy
         n == Len(type_handlers[payload_type(message)].handlers)
     IN \E rnd \in (IF policy = "Random" THEN 0 .. n - 1 ELSE {0}) :
          LET out == dispatch_any(type_handlers, inner, message, policy, rnd)
          IN /\ type_handlers' = out.th
             /\ threads' = [threads EXCEPT ![t].pc = "any_call",
                                           ![t].id = <<out.called[1]>>]
  /\ UNCHANGED <<ENDPOINT_ID, endpoints, inner, hist, owned, apart, locks>>

\* The dispatch closure of the chosen handle is entered:
\* let mut guard = inner.write(); on_message runs under the guard.
CallbackLock(t) ==
  /\ threads[t].pc \in {"any_call", "call_handlers", "endpoint_call"}
  /\ threads[t].cb.pc = "none"
  /\ Mutex_can_lock(locks.inner, threads[t].id[1])
  /\ locks' = [locks EXCEPT !.inner = Mutex_lock(@, threads[t].id[1], t)]
  /\ threads' = [threads EXCEPT ![t].cb.pc = "on_message"]
  /\ UNCHANGED <<registry, last, rr_run, sf>>

\* The registered callback is at its end: it calls nothing of the router,
\* or what it called has returned.
CallbackOver(t) ==
  \/ threads[t].cb.pc = "resumed"
  \/ /\ threads[t].cb.pc = "on_message"
     /\ ~ CallsBack(inner, owned, threads[t].id[1])

\* A callback that calls router.create_endpoint::<M>(): Endpoint::new up
\* to the registration, on the dispatching thread.
CallbackCreates(t) ==
  /\ threads[t].cb.pc = "on_message"
  /\ inner[threads[t].id[1]].callback = <<"create">>
  /\ ENDPOINT_ID < MaxLockEndpoints
  /\ LET id == ENDPOINT_ID IN
     /\ ENDPOINT_ID' = fetch_add(ENDPOINT_ID)
     /\ inner' = MapInsert(inner, id, EndpointInner_new("TestPayload"))
     /\ hist' = [hist EXCEPT !.allocated = Append(@, id), !.bound = @ \cup {id}]
     /\ threads' = [threads EXCEPT
                      ![t].cb = [pc |-> "insert_identity", id |-> <<id>>]]
  /\ UNCHANGED <<endpoints, type_handlers, owned, apart, locks>>

\* A callback that drops the endpoint victim: Drop calls remove_endpoint
\* on the dispatching thread.
CallbackDrops(t, victim) ==
  /\ threads[t].cb.pc = "on_message"
  /\ inner[threads[t].id[1]].callback = <<"drop">>
  /\ victim \in owned
  /\ owned' = owned \ {victim}
  /\ threads' = [threads EXCEPT
                   ![t].cb = [pc |-> "remove_identity", id |-> <<victim>>]]
  /\ UNCHANGED <<ENDPOINT_ID, endpoints, type_handlers, inner, hist, apart, locks>>

\* The next statement of the add_endpoint or remove_endpoint that the
\* callback is in: a write() on a registry lock and the update under it.
\* After the second statement the callback goes on.
NestedStep(t) ==
  LET pc == threads[t].cb.pc
      id == threads[t].cb.id[1]
  IN /\ pc \in {"insert_identity", "push_type", "remove_identity", "retain_type"}
     /\ IF pc \in {"insert_identity", "remove_identity"}
        THEN /\ RwLock_can_write(locks.endpoints, t)
             /\ endpoints' = IF pc = "insert_identity"
                             THEN add_endpoint_handle(endpoints, EndpointHandle_new(id))
                             ELSE remove_endpoint_id(endpoints, id)
             /\ threads' = [threads EXCEPT
                              ![t].cb.pc = IF pc = "insert_identity"
                                           THEN "push_type" ELSE "retain_type"]
             /\ locks' = [locks EXCEPT !.endpoints = RwLock_released(@, t)]
             /\ UNCHANGED <<type_handlers, inner, owned>>
        ELSE /\ RwLock_can_write(locks.type_handlers, t)
             /\ type_handlers' =
                  IF pc = "push_type"
                  THEN push_type_handler(type_handlers, inner[id].mtype,
                                         EndpointHandle_new(id))
                  ELSE remove_endpoint_type(type_handlers, id)
             /\ owned' = IF pc = "push_type" THEN owned \cup {id} ELSE owned
             /\ threads' = [threads EXCEPT ![t].cb = [pc |-> "resumed", id |-> <<>>]]
             /\ inner' = IF pc = "push_type"
                            \/ InnerHeld(endpoints, type_handlers', owned, threads', id)
                         THEN inner ELSE MapRemove(inner, id)
             /\ locks' = [locks EXCEPT !.type_handlers = RwLock_released(@, t)]
             /\ UNCHANGED endpoints
     /\ UNCHANGED <<ENDPOINT_ID, hist, apart>>

\* endpoint.message(f) is called: the endpoint is moved into the call.
MessageStart(t, id, f) ==
  /\ threads[t].pc = "idle"
  /\ id \in owned
  /\ owned' = owned \ {id}
  /\ threads' = [threads EXCEPT ![t] = [Busy("lock_inner", "message", id)
                                          EXCEPT !.arg = f]]
  /\ UNCHANGED <<ENDPOINT_ID, endpoints, type_handlers, inner, hist, apart, locks>>

\* endpoint.filter(filter) is called: the endpoint is moved into the call.
FilterStart(t, id) ==
  /\ threads[t].pc = "idle"
  /\ id \in owned
  /\ Len(inner[id].filters) < MaxFilters
  /\ owned' = owned \ {id}
  /\ threads' = [threads EXCEPT ![t] = Busy("lock_inner", "filter", id)]
  /\ UNCHANGED <<ENDPOINT_ID, endpoints, type_handlers, inner, hist, apart, locks>>

\* self.inner.write() of Endpoint::message and Endpoint::filter
OwnerLock(t) ==
  /\ threads[t].pc = "lock_inner"
  /\ Mutex_can_lock(locks.inner, threads[t].id[1])
  /\ locks' = [locks EXCEPT !.inner = Mutex_lock(@, threads[t].id[1], t)]
  /\ threads' = [threads EXCEPT ![t].pc = "locked"]
  /\ UNCHANGED <<registry, last, rr_run, sf>>

\* Under the guard: callback = Some(Box::new(f)), or add_filter(filter);
\* the guard is dropped and the endpoint handed back to the caller.
OwnerUnlock(t) ==
  /\ threads[t].pc = "locked"
  /\ LET id == threads[t].id[1] IN
     /\ inner' = IF threads[t].op = "message"
                 THEN [inner EXCEPT ![id] = Endpoint_message(@, threads[t].arg)]
                 ELSE [inner EXCEPT ![id].filters = Append(@, BuildFilter({Tag(0, 1)}))]
     /\ hist' = IF threads[t].op = "message"
                THEN [hist EXCEPT !.registered = MapInsert(@, id, threads[t].arg)]
                ELSE hist
     /\ owned' = owned \cup {id}
     /\ locks' = [locks EXCEPT !.inner = Mutex_unlock(@, id, t)]
  /\ threads' = [threads EXCEPT ![t] = Idle(NoOut)]
  /\ UNCHANGED <<ENDPOINT_ID, endpoints, type_handlers, apart>>

\* Dispatches through the clones, create_endpoint, drops, callback
\* registrations and filter additions; no callback calls back.
NextInner ==
  \/ \E t \in Threads, message \in InnerMessages : StartDispatch(t, message)
  \/ \E t \in Threads : WriteClaim(t)
  \/ \E t \in Threads : AnyWrite(t)
  \/ \E t \in Threads : EvalFilterLock(t)
  \/ \E t \in Threads : EvalFilterReturn(t)
  \/ \E t \in Threads : AnySelect(t)
  \/ \E t \in Threads : CallbackLock(t)
  \/ \E t \in Threads : CallbackOver(t) /\ DispatchAnyReturn(t)
  \/ \E t \in Threads : DispatchBroadcastLock(t)
  \/ \E t \in Threads : CallbackOver(t) /\ CallHandler(t)
  \/ \E t \in Threads : DispatchEndpointLock(t)
  \/ \E t \in Threads : CallbackOver(t) /\ DispatchEndpointReturn(t)
  \/ \E t \in Threads : CreateStart(t, "TestPayload")
  \/ \E t \in Threads : InsertIdentity(t)
  \/ \E t \in Threads : PushType(t)
  \/ \E t \in Threads, id \in owned : MessageStart(t, id, "inc")
  \/ \E t \in Threads, id \in owned : FilterStart(t, id)
  \/ \E t \in Threads : OwnerLock(t)
  \/ \E t \in Threads : OwnerUnlock(t)
  \/ \E t \in Threads, id \in owned : DropStart(t, id)
  \/ \E t \in Threads : RemoveIdentity(t)
  \/ \E t \in Threads : RetainType(t)

SpecInner == InitLock /\ [][NextInner]_vars

\* The same operations with callbacks that call back into their router:
\* every callback of InnerCallbacks can be registered.
NextReentrant ==
  \/ \E t \in Threads, message \in InnerMessages : StartDispatch(t, message)
  \/ \E t \in Threads : WriteClaim(t)
  \/ \E t \in Threads : AnyWrite(t)
  \/ \E t \in Threads : EvalFilterLock(t)
  \/ \E t \in Threads : EvalFilterReturn(t)
  \/ \E t \in Threads : AnySelect(t)
  \/ \E t \in Threads : CallbackLock(t)
  \/ \E t \in Threads : CallbackCreates(t)
  \/ \E t \in Threads, victim \in owned : CallbackDrops(t, victim)
  \/ \E t \in Threads : NestedStep(t)
  \/ \E t \in Threads : CallbackOver(t) /\ DispatchAnyReturn(t)
  \/ \E t \in Threads : DispatchBroadcastLock(t)
  \/ \E t \in Threads : CallbackOver(t) /\ CallHandler(t)
  \/ \E t \in Threads : DispatchEndpointLock(t)
  \/ \E t \in Threads : CallbackOver(t) /\ DispatchEndpointReturn(t)
  \/ \E t \in Threads : CreateStart(t, "TestPayload")
  \/ \E t \in Threads : InsertIdentity(t)
  \/ \E t \in Threads : PushType(t)
  \/ \E t \in Threads, id \in owned, f \in InnerCallbacks : MessageStart(t, id, f)
  \/ \E t \in Threads, id \in owned : FilterStart(t, id)
  \/ \E t \in Threads : OwnerLock(t)
  \/ \E t \in Threads : OwnerUnlock(t)
  \/ \E t \in Threads, id \in owned : DropStart(t, id)
  \/ \E t \in Threads : RemoveIdentity(t)
  \/ \E t \in Threads : RetainType(t)

SpecReentrant == InitLock /\ [][NextReentrant]_vars

\* The steps with which thread t goes on inside an operation it has started.
Continue(t) ==
  \/ WriteClaim(t)
  \/ AnyWrite(t)
  \/ EvalFilterLock(t)
  \/ EvalFilterReturn(t)
  \/ AnySelect(t)
  \/ CallbackLock(t)
  \/ CallbackOver(t) /\ DispatchAnyReturn(t)
  \/ DispatchBroadcastLock(t)
  \/ CallbackOver(t) /\ CallHandler(t)
  \/ DispatchEndpointLock(t)
  \/ CallbackOver(t) /\ DispatchEndpointReturn(t)
  \/ InsertIdentity(t)
  \/ PushType(t)
  \/ OwnerLock(t)
  \/ OwnerUnlock(t)
  \/ RemoveIdentity(t)
  \/ RetainType(t)

\* Scheduling: a thread inside an operation is not suspended for ever, and
\* the locks are fair (parking_lot hands a lock over to a waiting thread):
\* a thread whose next step is possible again and again takes it.  No
\* thread is obliged to start an operation.
Fairness == \A t \in Threads : SF_vars(Continue(t))

SpecFair == InitLock /\ [][NextInner]_vars /\ Fairness

\* --------------------------------------------------- SourceFilter in isolation
\* SourceFilter::default()
FilterNew ==
  /\ sf' = [filter |-> SourceFilter_default, added |-> {}, applied |-> <<>>]
  /\ UNCHANGED <<registry, last, rr_run, conc>>

\* filter.add(source)
FilterAdd(source) ==
  /\ sf' = [filter |-> SourceFilter_add(sf.filter, source),
            added |-> sf.added \cup {source}, applied |-> <<>>]
  /\ UNCHANGED <<registry, last, rr_run, conc>>

\* filter.filter(&message)
FilterMessage(message) ==
  /\ sf' = [sf EXCEPT !.applied =
              <<[msg |-> message, result |-> SourceFilter_filter(sf.filter, message)]>>]
  /\ UNCHANGED <<registry, last, rr_run, conc>>

\* The messages of src/src/test/filter.rs: unicast payloads with any tag or none.
FilterMessages ==
  {NewMessage(src, DestAny("RoundRobin"), "Unicast", "TestPayload") :
     src \in {<<>>} \cup {<<t>> : t \in Tags}}

NextFilter ==
  \/ FilterNew
  \/ \E source \in Tags : FilterAdd(source)
  \/ \E message \in FilterMessages : FilterMessage(message)

SpecFilter == Init /\ [][NextFilter]_vars

\* ================================================================= claims
\* Ids of a handler list, in list order.
HandlerIds(handlers) == [i \in 1 .. Len(handlers) |-> handlers[i].endpoint_id]

\* ---- C1 -------------------------------------------------------------------
\* The run of consecutive source-less Any(RoundRobin) calls covers at least
\* as many calls as the type has handles; the window is the latest N of them.
RunType == rr_run.ty[1]

RunHandlers == type_handlers[RunType].handlers

HasWindow == rr_run.ty # <<>> /\ Len(rr_run.calls) >= Len(RunHandlers)

RunWindow == LastN(rr_run.calls, Len(RunHandlers))

\* C1 as stated: N consecutive source-less Any(RoundRobin) calls, with no
\* registration change in between, invoke the N endpoints of the type exactly
\* once each in registration order: the k-th call of the window reaches the
\* k-th registered endpoint.
C1_Original ==
  HasWindow =>
    \A k \in 1 .. Len(RunHandlers) : RunWindow[k].id = RunHandlers[k].endpoint_id

\* C1 amended: each call invokes the handle at index (cursor mod N); when the
\* cursor does not wrap around within the N calls, these are the N endpoints
\* exactly once each, in cyclic registration order starting at the handle at
\* index (cursor before the first call) mod N.
C1_RoundRobinCyclic ==
  HasWindow =>
    LET N == Len(RunHandlers)
        c == RunWindow[1].cursor
    IN /\ \A k \in 1 .. N :
            RunWindow[k].id = RunHandlers[(RunWindow[k].cursor % N) + 1].endpoint_id
       /\ c + N <= 2 ^ UsizeBits =>
            /\ \A k \in 1 .. N :
                 RunWindow[k].id = RunHandlers[((c + k - 1) % N) + 1].endpoint_id
            /\ \A j, k \in 1 .. N : j # k => RunWindow[j].id # RunWindow[k].id
            /\ {RunWindow[k].id : k \in 1 .. N}
                 = {RunHandlers[k].endpoint_id : k \in 1 .. N}

\* Three endpoints of one type, three consecutive calls that start in the
\* middle of the rotation and do not cross the cursor's wrap-around.
C1_Witness ==
  /\ HasWindow
  /\ Len(RunHandlers) = 3
  /\ RunWindow[1].cursor % 3 # 0
  /\ RunWindow[1].cursor + 3 <= 2 ^ UsizeBits

\* ---- C2 -------------------------------------------------------------------
\* The payload types for which a live router-bound endpoint is registered.
LiveTypes == {inner[id].mtype : id \in owned}

\* C2: between operations, after create_endpoint calls and endpoint drops only
\* (no static registration), num_endpoints() and num_handlers() both equal the
\* number of live router-bound endpoints, the type map has an entry exactly
\* for the payload types of live endpoints, and with every endpoint dropped
\* both counts are 0 and the type map is empty.
C2_LifecycleCounts ==
  (last = <<>> /\ static_endpoints = <<>>) =>
    /\ num_endpoints(endpoints) = Cardinality(owned)
    /\ num_handlers(type_handlers) = Cardinality(owned)
    /\ DOMAIN type_handlers = LiveTypes
    /\ owned = {} =>
         /\ num_endpoints(endpoints) = 0
         /\ num_handlers(type_handlers) = 0
         /\ DOMAIN type_handlers = {}

\* Every endpoint the bound allows has been created, for both payload types,
\* and all of them were dropped again.
C2_Witness ==
  /\ last = <<>>
  /\ ENDPOINT_ID = MaxWide
  /\ owned = {}
  /\ num_endpoints(endpoints) = 0
  /\ num_handlers(type_handlers) = 0

\* Endpoints of both types were created and one type lost its last endpoint.
C2_WitnessPartial ==
  /\ last = <<>>
  /\ ENDPOINT_ID = MaxWide
  /\ Cardinality(owned) = 2
  /\ Cardinality(DOMAIN type_handlers) = 1

\* ---- the latest handle_message call ----------------------------------------
LastCall == last[1]

LastType == payload_type(LastCall.msg)

LastDest == Message_dest(LastCall.msg)

\* The handles registered for the message's payload type when it was dispatched.
PreHandlers == LastCall.pre[LastType].handlers

AllHaveCallback(handlers) ==
  \A i \in 1 .. Len(handlers) : inner[handlers[i].endpoint_id].callback # <<>>

\* What the callback registered on endpoint id returns for the message.
ExpectedReturn(id) ==
  CallbackApply(inner[id].callback[1], LastCall.msg.source, LastCall.msg.payload)

InvokedIds == [i \in 1 .. Len(LastCall.invoked) |-> LastCall.invoked[i].id]

\* The multiset of the elements of a sequence.
BagOfSeq(seq) ==
  [x \in {seq[i] : i \in 1 .. Len(seq)} |->
     Cardinality({i \in 1 .. Len(seq) : seq[i] = x})]

\* ---- C3 -------------------------------------------------------------------
\* C3: an Any(policy) dispatch for a payload type with at least one registered
\* endpoint, each with a callback, runs exactly one callback exactly once, on
\* an endpoint of that type and with the message's payload, and returns the
\* one-element list holding that callback's return value.
C3_AnyDeliversOnce ==
  (/\ last # <<>>
   /\ LastDest.kind = "Any"
   /\ LastType \in DOMAIN LastCall.pre
   /\ AllHaveCallback(PreHandlers)) =>
    /\ LastCall.panic = NoPanic
    /\ Len(LastCall.called) = 1
    /\ Len(LastCall.invoked) = 1
    /\ LastCall.invoked[1].id = LastCall.called[1]
    /\ \E i \in 1 .. Len(PreHandlers) : PreHandlers[i].endpoint_id = LastCall.called[1]
    /\ LastCall.invoked[1].payload = LastCall.msg.payload
    /\ LastCall.result = << <<ExpectedReturn(LastCall.called[1])>> >>

\* unicast(Integer(1)) to a router whose endpoint maps Integer(n) to n + 1
\* returns Some([2]).
C3_Witness ==
  /\ last # <<>>
  /\ LastCall.msg = NewMessage(<<>>, DestAny("RoundRobin"), "Unicast", "TestPayload")
  /\ InvokedIds # <<>>
  /\ inner[InvokedIds[1]].callback = <<"inc">>
  /\ LastCall.result = << <<2>> >>

\* ---- C4 -------------------------------------------------------------------
\* C4: a Broadcast dispatch of a broadcast-capable payload to a type with
\* M >= 1 registered endpoints, each with a callback, runs the callback of
\* every one of the M endpoints exactly once, whatever the source tag and the
\* filters, and returns M results whose multiset is that of the M return values.
C4_BroadcastFanOut ==
  (/\ last # <<>>
   /\ LastDest.kind = "Broadcast"
   /\ LastCall.msg.payload.flavor = "Broadcast"
   /\ LastType \in DOMAIN LastCall.pre
   /\ AllHaveCallback(PreHandlers)) =>
    LET M == Len(PreHandlers)
        ids == HandlerIds(PreHandlers)
    IN /\ LastCall.panic = NoPanic
       /\ Len(LastCall.invoked) = M
       /\ \A i \in 1 .. M :
            Cardinality({j \in 1 .. Len(InvokedIds) : InvokedIds[j] = ids[i]}) = 1
       /\ \A j \in 1 .. Len(LastCall.invoked) :
            LastCall.invoked[j].payload = LastCall.msg.payload
       /\ LastCall.result # <<>>
       /\ Len(LastCall.result[1]) = M
       /\ BagOfSeq(LastCall.result[1])
            = BagOfSeq([i \in 1 .. M |-> ExpectedReturn(ids[i])])

\* A source-tagged broadcast to two endpoints with different callbacks, one
\* with a filter that matches the tag and one with none.
C4_Witness ==
  /\ last # <<>>
  /\ LastDest.kind = "Broadcast"
  /\ LastCall.msg.source # <<>>
  /\ LastType \in DOMAIN LastCall.pre
  /\ Len(PreHandlers) = 2
  /\ Handle_filter(inner, PreHandlers[2], LastCall.msg)
  /\ inner[PreHandlers[1].endpoint_id].filters = <<>>
  /\ LastCall.result # <<>>
  /\ Len(LastCall.result[1]) = 2
  /\ LastCall.result[1][1] # LastCall.result[1][2]

\* ---- C5 -------------------------------------------------------------------
\* C5: a message addressed to Endpoint(addr), addr a registered endpoint of
\* the message's payload type (with a callback), runs that endpoint's callback
\* exactly once on the original envelope and no other endpoint's, returns the
\* one-element list with its return value and leaves the type map as it was.
C5_AddressedDelivery ==
  (/\ last # <<>>
   /\ LastDest.kind = "Endpoint"
   /\ LastDest.addr \in DOMAIN endpoints
   /\ inner[LastDest.addr].mtype = LastType
   /\ inner[LastDest.addr].callback # <<>>) =>
    /\ LastCall.panic = NoPanic
    /\ LastCall.called = <<LastDest.addr>>
    /\ InvokedIds = <<LastDest.addr>>
    /\ LastCall.invoked[1].payload = LastCall.msg.payload
    /\ ~LastCall.invoked[1].is_clone
    /\ LastCall.result = << <<ExpectedReturn(LastDest.addr)>> >>
    /\ type_handlers = LastCall.pre

\* A broadcast-flavoured, source-tagged message addressed to the second of two
\* endpoints of its type, while the first one has a filter matching the tag.
C5_Witness ==
  /\ last # <<>>
  /\ LastDest.kind = "Endpoint"
  /\ LastCall.msg.payload.flavor = "Broadcast"
  /\ LastCall.msg.source # <<>>
  /\ LastType \in DOMAIN LastCall.pre
  /\ Len(PreHandlers) = 2
  /\ LastDest.addr = PreHandlers[2].endpoint_id
  /\ Handle_filter(inner, PreHandlers[1], LastCall.msg)
  /\ InvokedIds = <<LastDest.addr>>

\* ---- C6 -------------------------------------------------------------------
\* C6: a message addressed to an id that is not registered (never allocated,
\* or of a dropped endpoint) returns none, calls no handler and leaves the
\* registry unchanged, for unicast and broadcast payloads alike.
C6_UnknownAddress ==
  (/\ last # <<>>
   /\ LastDest.kind = "Endpoint"
   /\ LastDest.addr \notin DOMAIN endpoints) =>
    /\ LastCall.result = <<>>
    /\ LastCall.called = <<>>
    /\ LastCall.invoked = <<>>
    /\ LastCall.panic = NoPanic
    /\ type_handlers = LastCall.pre

\* A broadcast-flavoured message addressed to a dropped endpoint, while
\* another endpoint of the same payload type is still registered.
C6_Witness ==
  /\ last # <<>>
  /\ LastDest.kind = "Endpoint"
  /\ LastDest.addr < ENDPOINT_ID
  /\ LastDest.addr \notin DOMAIN endpoints
  /\ LastCall.msg.payload.flavor = "Broadcast"
  /\ LastType \in DOMAIN type_handlers
  /\ LastCall.result = <<>>

\* ---- C7 -------------------------------------------------------------------
\* C7: a callback only ever runs with a payload of its endpoint's registered
\* type; an Endpoint-addressed message of another payload type is declined
\* (none returned, no callback run); the payload downcast never fails.
C7_TypeIsolation ==
  last # <<>> =>
    /\ \A i \in 1 .. Len(LastCall.invoked) :
         inner[LastCall.invoked[i].id].mtype = LastCall.invoked[i].payload.ty
    /\ LastCall.panic # PanicPayloadDowncast
    /\ (/\ LastDest.kind = "Endpoint"
        /\ LastDest.addr \in DOMAIN endpoints
        /\ inner[LastDest.addr].mtype # LastType) =>
         /\ LastCall.result = <<>>
         /\ LastCall.invoked = <<>>
         /\ LastCall.panic = NoPanic

\* A BoxU32 endpoint with a callback is sent a TestPayload message by address.
C7_Witness ==
  /\ last # <<>>
  /\ LastDest.kind = "Endpoint"
  /\ LastDest.addr \in DOMAIN endpoints
  /\ inner[LastDest.addr].mtype = "BoxU32"
  /\ inner[LastDest.addr].callback # <<>>
  /\ LastType = "TestPayload"
  /\ LastCall.called = <<LastDest.addr>>
  /\ LastCall.result = <<>>

\* ---- C8 -------------------------------------------------------------------
\* Positions of the handles with a filter that matches the message.
Matching ==
  {i \in 1 .. Len(PreHandlers) :
     \E k \in 1 .. Len(inner[PreHandlers[i].endpoint_id].filters) :
        SourceFilter_filter(inner[PreHandlers[i].endpoint_id].filters[k], LastCall.msg)}

FirstMatching == PreHandlers[CHOOSE i \in Matching : \A j \in Matching : i <= j].endpoint_id

\* C8: a source-tagged Any dispatch for which some registered endpoint's
\* filter matches goes to the first such endpoint in registration order and to
\* no other, under either policy, and leaves the round-robin cursor unchanged.
C8_FirstFilterMatch ==
  (/\ last # <<>>
   /\ LastDest.kind = "Any"
   /\ LastCall.msg.source # <<>>
   /\ LastType \in DOMAIN LastCall.pre
   /\ Matching # {}) =>
    /\ LastCall.called = <<FirstMatching>>
    /\ type_handlers = LastCall.pre
    /\ inner[FirstMatching].callback # <<>> =>
         /\ LastCall.panic = NoPanic
         /\ InvokedIds = <<FirstMatching>>
         /\ LastCall.result = << <<ExpectedReturn(FirstMatching)>> >>
    /\ inner[FirstMatching].callback = <<>> =>
         /\ LastCall.panic = PanicNoHandler
         /\ LastCall.invoked = <<>>

\* Two endpoints whose filters both match; the round-robin cursor points at
\* the second one, the message goes to the first.
C8_Witness ==
  /\ last # <<>>
  /\ LastDest = DestAny("RoundRobin")
  /\ LastCall.msg.source # <<>>
  /\ LastType \in DOMAIN LastCall.pre
  /\ Matching = {1, 2}
  /\ LastCall.pre[LastType].next_index % 2 = 1
  /\ InvokedIds = <<PreHandlers[1].endpoint_id>>

C10_BroadcastToOneIsAny ==
  (/\ last # <<>>
   /\ LastDest.kind = "Broadcast"
   /\ LastType \in DOMAIN LastCall.pre
   /\ Len(PreHandlers) = 1) =>
    LET id == PreHandlers[1].endpoint_id
        any == dispatch_any(LastCall.pre, inner, LastCall.msg, LastDest.policy, 0)
        before == LastCall.pre[LastType].next_index
    IN /\ type_handlers = any.th
       /\ LastCall.result = any.result
       /\ LastCall.called = any.called
       /\ LastCall.invoked = any.invoked
       /\ LastCall.panic = any.panic
       /\ LastCall.called = <<id>>
       /\ LastCall.panic # PanicCloneUnicast
       /\ \A i \in 1 .. Len(LastCall.invoked) : ~LastCall.invoked[i].is_clone
       /\ type_handlers[LastType].next_index =
            IF LastDest.policy = "RoundRobin" /\ Matching = {}
            THEN (before + 1) % (2 ^ UsizeBits) ELSE before
       /\ inner[id].callback # <<>> =>
            /\ InvokedIds = <<id>>
            /\ LastCall.result = << <<ExpectedReturn(id)>> >>

\* A source-less Broadcast(RoundRobin) of a unicast-only payload to the only
\* endpoint of its type is delivered and advances the cursor.
C10_Witness ==
  /\ last # <<>>
  /\ LastDest = DestBroadcast("RoundRobin")
  /\ LastCall.msg.payload.flavor = "Unicast"
  /\ LastCall.msg.source = <<>>
  /\ LastType \in DOMAIN LastCall.pre
  /\ Len(PreHandlers) = 1
  /\ InvokedIds = <<PreHandlers[1].endpoint_id>>
  /\ type_handlers[LastType].next_index # LastCall.pre[LastType].next_index

\* ---- a handle_message step ------------------------------------------------
\* A step in which handle_message runs: the record of the call appears.
IsDispatchStep == last = <<>> /\ last' # <<>>

\* The registry maps, cursors included, and every endpoint's inner state are
\* the same after the step.
RegistryUnchanged ==
  /\ endpoints' = endpoints
  /\ type_handlers' = type_handlers
  /\ inner' = inner
  /\ static_endpoints' = static_endpoints

\* ---- C11 ------------------------------------------------------------------
\* C11: a Broadcast-destined dispatch of a unicast-only payload to a type with
\* two or more registered endpoints fails with the envelope-clone panic; no
\* dispatch closure is called, no callback runs, nothing is returned and the
\* registry is left unchanged.
C11_UnclonableBroadcast ==
  [][(/\ IsDispatchStep
      /\ LastDest'.kind = "Broadcast"
      /\ LastCall'.msg.payload.flavor = "Unicast"
      /\ LastType' \in DOMAIN type_handlers
      /\ Len(type_handlers[LastType'].handlers) >= 2) =>
       /\ LastCall'.panic = PanicCloneUnicast
       /\ LastCall'.called = <<>>
       /\ LastCall'.invoked = <<>>
       /\ LastCall'.result = <<>>
       /\ RegistryUnchanged]_vars

\* Message::unicast(..).with_dest(Broadcast) was dispatched to two endpoints
\* that both have a callback, and the dispatch panicked in Message::clone.
C11_Witness ==
  /\ last # <<>>
  /\ LastDest.kind = "Broadcast"
  /\ LastCall.msg.payload.flavor = "Unicast"
  /\ LastType \in DOMAIN LastCall.pre
  /\ Len(PreHandlers) = 2
  /\ AllHaveCallback(PreHandlers)
  /\ LastCall.panic = PanicCloneUnicast

\* ---- C12 ------------------------------------------------------------------
\* Positions in the list of called endpoints of those without a callback.
CalledUnconfigured ==
  {i \in 1 .. Len(LastCall.called) : inner[LastCall.called[i]].callback = <<>>}

\* C12 as stated: whenever a dispatch calls the dispatch closure of an
\* endpoint that has no callback, handle_message fails with the
\* handler-not-configured panic.
C12_Original ==
  (last # <<>> /\ CalledUnconfigured # {}) => LastCall.panic = PanicNoHandler

\* C12 amended: a dispatch that calls an endpoint without a callback fails
\* with the handler-not-configured panic when the message's payload type is
\* the endpoint's; that endpoint is the last one called, its callback slot is
\* never run and nothing is returned.  When the payload type differs (an
\* Endpoint-addressed message) the dispatch closure declines first: none is
\* returned without failing.
C12_HandlerNotConfigured ==
  last # <<>> =>
    \A i \in CalledUnconfigured :
      LET id == LastCall.called[i] IN
      IF inner[id].mtype = LastType
      THEN /\ LastCall.panic = PanicNoHandler
           /\ i = Len(LastCall.called)
           /\ \A j \in 1 .. Len(LastCall.invoked) : LastCall.invoked[j].id # id
           /\ LastCall.result = <<>>
      ELSE /\ LastDest.kind = "Endpoint"
           /\ LastCall.panic = NoPanic
           /\ LastCall.result = <<>>
           /\ LastCall.invoked = <<>>

\* A source-less Any(RoundRobin) dispatch selected an endpoint fresh from
\* create_endpoint while another endpoint of the type has a callback.
C12_Witness ==
  /\ last # <<>>
  /\ LastDest = DestAny("RoundRobin")
  /\ LastType \in DOMAIN LastCall.pre
  /\ Len(PreHandlers) = 2
  /\ CalledUnconfigured = {1}
  /\ \E i \in 1 .. 2 : inner[PreHandlers[i].endpoint_id].callback # <<>>
  /\ LastCall.panic = PanicNoHandler

\* ---- C13 ------------------------------------------------------------------
\* C13: an Any or Broadcast dispatch of a payload type with no registered
\* endpoint returns none without failing, calls no handler, and leaves both
\* registry maps and every cursor unchanged.
C13_NoSubscriber ==
  [][(/\ IsDispatchStep
      /\ LastDest'.kind \in {"Any", "Broadcast"}
      /\ \/ LastType' \notin DOMAIN type_handlers
         \/ type_handlers[LastType'].handlers = <<>>) =>
       /\ LastCall'.result = <<>>
       /\ LastCall'.panic = NoPanic
       /\ LastCall'.called = <<>>
       /\ LastCall'.invoked = <<>>
       /\ RegistryUnchanged]_vars

\* A source-tagged Any dispatch of a payload type whose only endpoint was
\* dropped, while an endpoint of the other type is registered.
C13_Witness ==
  /\ last # <<>>
  /\ LastDest.kind = "Any"
  /\ LastCall.msg.source # <<>>
  /\ LastType \notin DOMAIN LastCall.pre
  /\ DOMAIN LastCall.pre # {}
  /\ \E id \in 0 .. ENDPOINT_ID - 1 : id \notin DOMAIN endpoints
  /\ LastCall.result = <<>>
  /\ LastCall.panic = NoPanic

\* ---- C15 ------------------------------------------------------------------
\* A step in which create_endpoint runs: a router-bound endpoint appears.
IsCreateStep == owned' # owned /\ ENDPOINT_ID \in owned' \ owned

\* C15: when create_endpoint returns, the new id is in the identity map, its
\* handle is the last element of the handler list of its payload type,
\* num_endpoints() and num_handlers() have each grown by exactly one, and the
\* handles registered earlier, the other types and the cursors are as before.
C15_RegisteredOnReturn ==
  [][IsCreateStep =>
       LET id == ENDPOINT_ID
           M == inner'[id].mtype
           before == IF M \in DOMAIN type_handlers
                     THEN type_handlers[M].handlers ELSE <<>>
       IN /\ id \in DOMAIN endpoints'
          /\ endpoints'[id].endpoint_id = id
          /\ M \in DOMAIN type_handlers'
          /\ type_handlers'[M].handlers = Append(before, endpoints'[id])
          /\ num_endpoints(endpoints') = num_endpoints(endpoints) + 1
          /\ num_handlers(type_handlers') = num_handlers(type_handlers) + 1
          /\ \A k \in DOMAIN endpoints : endpoints'[k] = endpoints[k]
          /\ \A T \in DOMAIN type_handlers :
               /\ T \in DOMAIN type_handlers'
               /\ type_handlers'[T].next_index = type_handlers[T].next_index
               /\ T # M => type_handlers'[T] = type_handlers[T]]_vars

\* A second endpoint was just created for a payload type that already had
\* one: it is the last of the two handles and both counts are 2.
C15_Witness ==
  /\ last = <<>>
  /\ ENDPOINT_ID = 2
  /\ ENDPOINT_ID - 1 \in owned
  /\ inner[ENDPOINT_ID - 1].callback = <<>>
  /\ \E M \in DOMAIN type_handlers :
       /\ Len(type_handlers[M].handlers) = 2
       /\ type_handlers[M].handlers[2].endpoint_id = ENDPOINT_ID - 1
  /\ num_endpoints(endpoints) = 2
  /\ num_handlers(type_handlers) = 2

\* ---- C19 ------------------------------------------------------------------
\* A step in which message(f) is called on an endpoint that has a callback.
IsReplaceStep(id) ==
  /\ id \in DOMAIN inner /\ id \in DOMAIN inner'
  /\ inner[id].callback # <<>>
  /\ hist'.registered[id] # hist.registered[id]

\* C19: registering a callback on an endpoint that already has one leaves the
\* callback last passed to message() in place and changes neither the
\* endpoint's id, its position in the handler list, its filters nor the
\* registry counts; every dispatch runs, on each endpoint it invokes, the
\* callback most recently registered on it and returns that callback's value.
C19_CallbackReplaced ==
  [][/\ \A id \in DOMAIN inner :
          IsReplaceStep(id) =>
            /\ inner'[id].callback = <<hist'.registered[id]>>
            /\ inner'[id].filters = inner[id].filters
            /\ inner'[id].mtype = inner[id].mtype
            /\ \A k \in DOMAIN inner \ {id} : inner'[k] = inner[k]
            /\ endpoints' = endpoints
            /\ type_handlers' = type_handlers
            /\ owned' = owned
            /\ ENDPOINT_ID' = ENDPOINT_ID
            /\ num_endpoints(endpoints') = num_endpoints(endpoints)
            /\ num_handlers(type_handlers') = num_handlers(type_handlers)
     /\ (IsDispatchStep /\ LastCall'.panic = NoPanic /\ LastCall'.invoked # <<>>) =>
          /\ LastCall'.result # <<>>
          /\ Len(LastCall'.result[1]) = Len(LastCall'.invoked)
          /\ \A j \in 1 .. Len(LastCall'.invoked) :
               LastCall'.result[1][j] =
                 CallbackApply(hist.registered[LastCall'.invoked[j].id],
                               LastCall'.invoked[j].source, LastCall'.invoked[j].payload)]_vars

\* An endpoint with a filter, second of two of its type, had its callback
\* replaced by the constant one; a message addressed to it returns the constant.
C19_Witness ==
  /\ last # <<>>
  /\ LastDest.kind = "Endpoint"
  /\ LastDest.addr \in hist.replaced
  /\ LastType \in DOMAIN LastCall.pre
  /\ Len(PreHandlers) = 2
  /\ PreHandlers[2].endpoint_id = LastDest.addr
  /\ inner[LastDest.addr].filters # <<>>
  /\ hist.registered[LastDest.addr] = "const"
  /\ LastCall.result = << <<ConstReturn>> >>

\* ---- several routers --------------------------------------------------------
\* The identity map and the type map a router value resolves to.
EndpointsOf(router) == arc_endpoints[router.endpoints]

TypeHandlersOf(router) == arc_type_handlers[router.type_handlers]

\* Number of handles of endpoint id in the handler lists of a type map.
Occurrences(th, id) ==
  Cardinality({<<T, i>> \in (DOMAIN th) \X (1 .. MaxMulti + MaxDup) :
                 /\ i <= Len(th[T].handlers)
                 /\ th[T].handlers[i].endpoint_id = id})

\* The elements of a sequence.
Range(seq) == {seq[i] : i \in 1 .. Len(seq)}

\* ---- C14 ------------------------------------------------------------------
\* C14: the ids handed out, in allocation order, strictly increase, so any two
\* endpoints ever created (through any router or clone, router-bound, static
\* or standalone, before or after drops) have distinct ids and no id is handed
\* out again; every endpoint object, handle and inner state carries an id
\* that was handed out, a handle is filed under its own id, and an endpoint
\* object keeps its id, payload type and router for as long as it exists.
C14_UniqueIds ==
  [][/\ \A i, j \in 1 .. Len(hist'.allocated) :
          i < j => hist'.allocated[i] < hist'.allocated[j]
     /\ \A i \in 1 .. Len(hist'.allocated) : hist'.allocated[i] < ENDPOINT_ID'
     /\ hist'.allocated # hist.allocated =>
          /\ Len(hist'.allocated) = Len(hist.allocated) + 1
          /\ SubSeq(hist'.allocated, 1, Len(hist.allocated)) = hist.allocated
          /\ hist'.allocated[Len(hist'.allocated)] \notin Range(hist.allocated)
     /\ DOMAIN objects' \subseteq Range(hist'.allocated)
     /\ StaticIds(routers') \subseteq Range(hist'.allocated)
     /\ DOMAIN inner' \subseteq Range(hist'.allocated)
     /\ \A a \in DOMAIN arc_endpoints' :
          \A k \in DOMAIN arc_endpoints'[a] :
            /\ k \in Range(hist'.allocated)
            /\ arc_endpoints'[a][k].endpoint_id = k
     /\ \A a \in DOMAIN arc_type_handlers' : \A T \in DOMAIN arc_type_handlers'[a] :
          \A i \in 1 .. Len(arc_type_handlers'[a][T].handlers) :
            arc_type_handlers'[a][T].handlers[i].endpoint_id \in Range(hist'.allocated)
     /\ \A id \in DOMAIN objects \cap DOMAIN objects' :
          /\ objects'[id] = objects[id]
          /\ inner'[id].mtype = inner[id].mtype]_vars

\* Two endpoints were created, the first router-bound and dropped again, the
\* second still alive and bound to the other, independent router.
C14_Witness ==
  /\ hist.allocated = <<0, 1>>
  /\ 0 \notin DOMAIN objects
  /\ ~IsRegistered(arc_endpoints, arc_type_handlers, 0)
  /\ 1 \in DOMAIN objects
  /\ objects[1] # <<>>
  /\ objects[1][1].endpoints = routers[3].endpoints
  /\ 1 \in DOMAIN EndpointsOf(routers[3])

\* ---- C16 ------------------------------------------------------------------
\* The drop of endpoint id has completed: the id was handed out, no thread
\* is still creating or dropping the endpoint, and the object is gone.
DropCompleted(id) ==
  /\ id \in Range(hist.allocated)
  /\ id \notin owned
  /\ ~InProgress("create", id)
  /\ ~InProgress("drop", id)

\* Thread t is dispatching and has selected endpoint id: it holds the lock
\* under which it calls, or is calling, the endpoint's dispatch closure.
Selected(t, id) ==
  /\ threads[t].pc \in {"any_call", "call_handlers", "endpoint_call"}
  /\ threads[t].id = <<id>>

\* ... and the closure runs a registered callback.
Executing(t, id) ==
  /\ Selected(t, id)
  /\ id \in DOMAIN inner
  /\ inner[id].callback # <<>>

\* C16 as stated: once the drop of an endpoint has completed, no dispatch of
\* any kind, through any clone, has the endpoint selected or is executing
\* its callback.
C16_Original ==
  \A id \in 0 .. MaxLockEndpoints - 1, t \in Threads :
    DropCompleted(id) => ~Executing(t, id)

\* C16, amended: once the drop of an endpoint that was created with an owning
\* router (create_endpoint) has completed, the endpoint is in neither map of
\* that router's registry and no dispatch through the router or a clone of
\* it, started before or after the drop, has it selected or is executing its
\* callback.
C16_BoundDropDeregisters ==
  \A id \in hist.bound :
    DropCompleted(id) =>
      /\ id \notin DOMAIN endpoints
      /\ \A M \in DOMAIN type_handlers : HandlesOf(type_handlers, M, id) = 0
      /\ \A t \in Threads : ~Selected(t, id)

\* A dispatch through one clone is executing the callback of a router-bound
\* endpoint while another thread drops that endpoint: the drop has removed
\* the identity-map entry and waits for the type-map lock the dispatch holds.
C16_Witness ==
  \E id \in hist.bound, t \in Threads, u \in Threads :
    /\ Executing(t, id)
    /\ threads[t].pc = "any_call"
    /\ threads[u].op = "drop"
    /\ threads[u].pc = "retain_type"
    /\ threads[u].id = <<id>>
    /\ locks.type_handlers.writer = t

\* ---- C17 ------------------------------------------------------------------
\* C17 as stated: after any sequence of create_endpoint, add_endpoint,
\* static_endpoint, remove_endpoint and drops, in every router an endpoint id
\* has at most one handle across the handler lists, and num_handlers() does
\* not exceed num_endpoints().
C17_AtMostOnce ==
  \A r \in 1 .. Len(routers) :
    /\ \A id \in 0 .. MaxMulti - 1 : Occurrences(TypeHandlersOf(routers[r]), id) <= 1
    /\ num_handlers(TypeHandlersOf(routers[r])) <= num_endpoints(EndpointsOf(routers[r]))

\* ---- C18 ------------------------------------------------------------------
\* C18 as stated: an endpoint held in a router's static_endpoints stays in
\* that router's identity map and handler list whatever operation runs, and
\* dropping an endpoint that has no router changes no map.
C18_StaticStays ==
  [][/\ \A r \in 1 .. Len(routers') :
          routers'[r].static_endpoints # <<>> =>
            \A id \in Range(routers'[r].static_endpoints[1]) :
              /\ id \in DOMAIN EndpointsOf(routers[r])'
              /\ Occurrences(TypeHandlersOf(routers[r])', id) >= 1
     /\ \A id \in DOMAIN objects \ DOMAIN objects' :
          objects[id] = <<>> =>
            /\ arc_endpoints' = arc_endpoints
            /\ arc_type_handlers' = arc_type_handlers]_vars

\* ---- C20 ------------------------------------------------------------------
\* The router made first, its clone, and the router made independently.
Original == routers[1]

Cloned == routers[2]

\* C20: the clone resolves to the maps of the original, so both report the
\* same num_endpoints() and num_handlers() and see the same handler lists and
\* round-robin cursors at all times; an endpoint created through either is at
\* once the last handle of its type for both, a dropped one is gone for both;
\* the clone, and the clone every endpoint holds, has no static-registration
\* list, so static_endpoint through the clone retains nothing.
C20_CloneSharesRegistry ==
  [][/\ EndpointsOf(Cloned)' = EndpointsOf(Original)'
     /\ TypeHandlersOf(Cloned)' = TypeHandlersOf(Original)'
     /\ num_endpoints(EndpointsOf(Cloned)') = num_endpoints(EndpointsOf(Original)')
     /\ num_handlers(TypeHandlersOf(Cloned)') = num_handlers(TypeHandlersOf(Original)')
     /\ Cloned'.static_endpoints = <<>>
     /\ \A id \in DOMAIN objects' : objects'[id] # <<>> =>
          objects'[id][1].static_endpoints = <<>>
     /\ \A id \in DOMAIN objects' \ DOMAIN objects :
          objects'[id] # <<>> =>
            \E r \in 1 .. Len(routers) :
              /\ objects'[id][1].endpoints = routers[r].endpoints
              /\ objects'[id][1].type_handlers = routers[r].type_handlers
              /\ id \in DOMAIN EndpointsOf(routers[r])'
              /\ LET handlers == TypeHandlersOf(routers[r])'[inner'[id].mtype].handlers
                 IN handlers[Len(handlers)].endpoint_id = id
     /\ \A id \in DOMAIN objects \ DOMAIN objects' :
          objects[id] # <<>> =>
            \A r \in 1 .. Len(routers) :
              routers[r].endpoints = objects[id][1].endpoints =>
                /\ id \notin DOMAIN EndpointsOf(routers[r])'
                /\ Occurrences(TypeHandlersOf(routers[r])', id) = 0]_vars

\* static_endpoint was called through the clone (the endpoint is registered
\* but held by nobody), a router-bound endpoint is registered next to it, and
\* a round-robin dispatch through the original, with the shared cursor at 1,
\* reached the endpoint registered through the clone.
C20_Witness ==
  /\ last # <<>>
  /\ LastCall.via = 1
  /\ LastDest = DestAny("RoundRobin")
  /\ LastType \in DOMAIN LastCall.pre
  /\ LastCall.pre[LastType].next_index = 1
  /\ Len(LastCall.invoked) = 1
  /\ LastCall.invoked[1].id \notin DOMAIN objects
  /\ LastCall.invoked[1].id \notin StaticIds(routers)
  /\ num_endpoints(EndpointsOf(Original)) = 2
  /\ num_endpoints(EndpointsOf(Cloned)) = 2
  /\ num_endpoints(EndpointsOf(routers[3])) = 0

\* ---- C27 ------------------------------------------------------------------
\* C27: an Any dispatch of a message whose source tag no registered
\* endpoint's filter matches selects by policy as for a source-less message:
\* RoundRobin calls the handle at (cursor mod N) and advances the cursor,
\* Random calls one handle of the list and leaves the cursor alone; the
\* selected endpoint runs its callback whether or not it has filters.
C27_FallbackToPolicy ==
  (/\ last # <<>>
   /\ LastDest.kind = "Any"
   /\ LastCall.msg.source # <<>>
   /\ LastType \in DOMAIN LastCall.pre
   /\ Matching = {}) =>
    LET N == Len(PreHandlers)
        cursor == LastCall.pre[LastType].next_index
    IN /\ Len(LastCall.called) = 1
       /\ \E i \in 1 .. N : PreHandlers[i].endpoint_id = LastCall.called[1]
       /\ LastDest.policy = "RoundRobin" =>
            /\ LastCall.called[1] = PreHandlers[(cursor % N) + 1].endpoint_id
            /\ type_handlers =
                 [LastCall.pre EXCEPT ![LastType].next_index = wrapping_add(cursor)]
       /\ LastDest.policy = "Random" => type_handlers = LastCall.pre
       /\ inner[LastCall.called[1]].callback # <<>> =>
            /\ LastCall.panic = NoPanic
            /\ InvokedIds = LastCall.called
            /\ LastCall.invoked[1].source = LastCall.msg.source
            /\ LastCall.result = << <<ExpectedReturn(LastCall.called[1])>> >>

\* A tagged Any(RoundRobin) message that the filter of the endpoint at the
\* cursor rejects, delivered to that endpoint all the same.
C27_Witness ==
  /\ last # <<>>
  /\ LastDest = DestAny("RoundRobin")
  /\ LastCall.msg.source # <<>>
  /\ LastType \in DOMAIN LastCall.pre
  /\ Matching = {}
  /\ Len(PreHandlers) = 2
  /\ LastCall.pre[LastType].next_index % 2 = 1
  /\ inner[PreHandlers[2].endpoint_id].filters # <<>>
  /\ InvokedIds = <<PreHandlers[2].endpoint_id>>

\* ---- C29 ------------------------------------------------------------------
\* Position of the first handle of the list whose endpoint has no callback,
\* 0 when every endpoint has one.
FirstUnconfigured(handlers) ==
  LET bad == {i \in 1 .. Len(handlers) : inner[handlers[i].endpoint_id].callback = <<>>}
  IN IF bad = {} THEN 0 ELSE CHOOSE i \in bad : \A j \in bad : i <= j

\* C29: in a Broadcast of a broadcast-capable payload to N >= 2 endpoints of
\* which the k-th in registration order is the first without a callback,
\* handle_message panics and returns no list, the k - 1 endpoints before it
\* have run their callbacks, in order, and no endpoint after it is called.
C29_FailureNotIsolated ==
  (/\ last # <<>>
   /\ LastDest.kind = "Broadcast"
   /\ LastCall.msg.payload.flavor = "Broadcast"
   /\ LastType \in DOMAIN LastCall.pre
   /\ Len(PreHandlers) >= 2
   /\ FirstUnconfigured(PreHandlers) # 0) =>
    LET k == FirstUnconfigured(PreHandlers)
        ids == HandlerIds(PreHandlers)
    IN /\ LastCall.panic = PanicNoHandler
       /\ LastCall.result = <<>>
       /\ LastCall.called = SubSeq(ids, 1, k)
       /\ InvokedIds = SubSeq(ids, 1, k - 1)
       /\ type_handlers = LastCall.pre

\* Three endpoints, the second without callback: the first has run, the
\* third has not been called.
C29_Witness ==
  /\ last # <<>>
  /\ LastDest.kind = "Broadcast"
  /\ LastType \in DOMAIN LastCall.pre
  /\ Len(PreHandlers) = 3
  /\ FirstUnconfigured(PreHandlers) = 2
  /\ inner[PreHandlers[3].endpoint_id].callback # <<>>
  /\ InvokedIds = <<PreHandlers[1].endpoint_id>>
  /\ LastCall.panic = PanicNoHandler

\* ---- C28 ------------------------------------------------------------------
\* C28: every entry of the type map has at least one handle, in every state
\* that threads creating, dropping and dispatching concurrently can reach;
\* a dispatch_any that found an entry has selected a handle of its list.
C28_NoEmptyTypeEntry ==
  /\ \A M \in DOMAIN type_handlers : Len(type_handlers[M].handlers) >= 1
  /\ \A t \in Threads :
       threads[t].pc = "any_call" =>
         LET M == payload_type(threads[t].msg[1]) IN
         /\ M \in DOMAIN type_handlers
         /\ HandlesOf(type_handlers, M, threads[t].id[1]) >= 1

\* One of two endpoints has been dropped while the other stays registered,
\* then the other one: the entry went with its last handle, and a dispatch
\* issued before finds no entry.
C28_Witness ==
  /\ hist.bound = {0, 1}
  /\ DropCompleted(0)
  /\ DropCompleted(1)
  /\ type_handlers = EmptyMap
  /\ \E t \in Threads : threads[t].pc = "dispatch_any"

\* ---- C21 ------------------------------------------------------------------
\* The handler calls of thread t's multi-recipient Broadcast that have not
\* returned yet, as positions in the handler list ...
FanOutPending(t) ==
  IF threads[t].pc = "call_handlers"
  THEN threads[t].i .. Len(type_handlers[payload_type(threads[t].msg[1])].handlers)
  ELSE {}

\* ... and those of them that are executing.
FanOutRunning(t) ==
  IF threads[t].pc = "call_handlers" THEN {threads[t].i} ELSE {}

\* C21 as stated: the handler calls of a Broadcast to M >= 2 endpoints are
\* farmed out and run in parallel, so while two or more of them have not
\* returned, two or more are executing; handle_message returns (the thread
\* leaves call_handlers) only when none is pending.
C21_Original ==
  \A t \in Threads :
    Cardinality(FanOutPending(t)) >= 2 => Cardinality(FanOutRunning(t)) >= 2

\* ---- C30 ------------------------------------------------------------------
\* C30 as stated: only the RoundRobin cursor advance takes the type map
\* exclusively; a thread calling the handler of an Any(Random) dispatch holds
\* the type-map lock as a reader, so another such dispatch can run beside it.
C30_Original ==
  \A t \in Threads :
    (/\ threads[t].pc = "any_call"
     /\ Message_dest(threads[t].msg[1]) = DestAny("Random")) =>
      /\ locks.type_handlers.writer # t
      /\ t \in locks.type_handlers.readers

\* ---- C24 ------------------------------------------------------------------
\* Endpoint id has a handle in the identity map / in a type-handler list.
InIdentityMap(id) == id \in DOMAIN endpoints

InTypeMap(id) == \E M \in DOMAIN type_handlers : HandlesOf(type_handlers, M, id) > 0

\* C24 as stated: a dispatch that found an endpoint in the identity map
\* (Endpoint-addressed) finds it in its type-handler list as well, and a
\* dispatch that found it in a type-handler list (Any, Broadcast) finds it
\* in the identity map, also while the endpoint is being created or dropped.
C24_Original ==
  \A t \in Threads, id \in 0 .. MaxLockEndpoints - 1 :
    Selected(t, id) =>
      IF threads[t].pc = "endpoint_call" THEN InTypeMap(id) ELSE InIdentityMap(id)

\* C24, amended: registration and deregistration each change the identity
\* map first and the type map second, in two critical sections.  An endpoint
\* is in the identity map but in no type-handler list only while its
\* create_endpoint is between the two, and in a type-handler list but not in
\* the identity map only while its drop is between the two; at any other
\* time the two maps agree.
C24_TwoCriticalSections ==
  \A id \in 0 .. MaxLockEndpoints - 1 :
    /\ (InIdentityMap(id) /\ ~InTypeMap(id)) =>
         \E t \in Threads : /\ threads[t].op = "create"
                            /\ threads[t].pc = "push_type"
                            /\ threads[t].id = <<id>>
    /\ (InTypeMap(id) /\ ~InIdentityMap(id)) =>
         \E t \in Threads : /\ threads[t].op = "drop"
                            /\ threads[t].pc = "retain_type"
                            /\ threads[t].id = <<id>>

\* An Endpoint-addressed dispatch has found an endpoint whose
\* create_endpoint has not reached the type map yet.
C24_Witness ==
  \E t \in Threads, u \in Threads, id \in 0 .. MaxLockEndpoints - 1 :
    /\ Selected(t, id)
    /\ threads[t].pc = "endpoint_call"
    /\ threads[u].op = "create"
    /\ threads[u].pc = "push_type"
    /\ threads[u].id = <<id>>
    /\ ~InTypeMap(id)

\* ---- C25 ------------------------------------------------------------------
\* Thread t returns from handle_message in this step.
Returns(t) == threads[t].op = "dispatch" /\ threads'[t].pc = "idle"

\* The endpoints whose callbacks the dispatch has run.
InvokedSet(out) == {out.invoked[i].id : i \in 1 .. Len(out.invoked)}

\* C25 as stated: the endpoints invoked by a Broadcast dispatch that returns
\* are exactly the endpoints that were registered for the payload type at
\* one instant between the call and the return of handle_message.
C25_Original ==
  [][\A t \in Threads :
       (/\ Returns(t)
        /\ Message_dest(threads[t].msg[1]).kind = "Broadcast"
        /\ threads'[t].out.panic = NoPanic) =>
         InvokedSet(threads'[t].out) \in hist.seen[1][t]]_vars

\* Thread t is executing the registered callback of endpoint id.
ExecutingCallback(t, id) ==
  threads[t].cb.pc \notin {"none", "filter"} /\ threads[t].id = <<id>>

\* Thread t is evaluating the filters of endpoint id.
EvaluatingFilters(t, id) ==
  threads[t].cb.pc = "filter" /\ threads[t].id = <<id>>

\* Thread t is replacing the callback of endpoint id.
ReplacingCallback(t, id) ==
  threads[t].pc = "locked" /\ threads[t].op = "message" /\ threads[t].id = <<id>>

\* Thread t is appending a filter to endpoint id.
AppendingFilter(t, id) ==
  threads[t].pc = "locked" /\ threads[t].op = "filter" /\ threads[t].id = <<id>>

\* The threads that are inside one of the four on endpoint id.
EngagedOn(id) ==
  {t \in Threads : \/ ExecutingCallback(t, id)
                   \/ EvaluatingFilters(t, id)
                   \/ ReplacingCallback(t, id)
                   \/ AppendingFilter(t, id)}

\* C26: for every endpoint, at most one of an execution of its callback, an
\* evaluation of its filters, a replacement of its callback and an append
\* of a filter is in progress at any time, whatever the interleaving of
\* dispatches through the clones and of the owner's calls.
C26_InnerMutualExclusion ==
  \A id \in 0 .. MaxLockEndpoints - 1 : Cardinality(EngagedOn(id)) <= 1

\* Two Endpoint-addressed dispatches hold read guards of the identity map
\* for the same endpoint: one runs its callback, the other waits for the
\* endpoint's mutex.
C26_Witness ==
  \E t \in Threads, u \in Threads, id \in 0 .. MaxLockEndpoints - 1 :
    /\ t # u
    /\ threads[t].pc = "endpoint_call" /\ ExecutingCallback(t, id)
    /\ threads[u].pc = "endpoint_call" /\ threads[u].id = <<id>>
    /\ threads[u].cb.pc = "none"
    /\ {t, u} \subseteq locks.endpoints.readers

\* Thread t is inside the registered callback of the endpoint it
\* dispatches to.
InHandler(t) == threads[t].cb.pc \notin {"none", "filter"}

\* Thread t is inside a create_endpoint or a drop that the callback it is
\* running has called.
CalledBack(t) ==
  threads[t].cb.pc \in {"insert_identity", "push_type", "remove_identity",
                        "retain_type"}

\* The registry lock of its destination mode is held by the dispatch of t.
HoldsRegistryLock(t) ==
  /\ threads[t].pc = "any_call" => locks.type_handlers.writer = t
  /\ threads[t].pc = "call_handlers" => t \in locks.type_handlers.readers
  /\ threads[t].pc = "endpoint_call" => t \in locks.endpoints.readers

\* C23: a dispatch holds its registry lock across the handler call (the
\* write guard of the type map for Any, a read guard of the type map for a
\* Broadcast to several recipients, a read guard of the identity map for
\* Endpoint), and a callback that has called create_endpoint or dropped an
\* endpoint of the same router stays inside that call for ever: the
\* dispatch never returns.
C23_SelfDeadlock ==
  /\ [](\A t \in Threads : InHandler(t) => HoldsRegistryLock(t))
  /\ [][\A t \in Threads : CalledBack(t) => CalledBack(t)']_vars

\* A Broadcast to two recipients whose first callback has dropped an
\* endpoint: remove_endpoint has passed the identity map and waits for the
\* write lock of the type map, of which its own dispatch holds a read guard.
C23_Witness ==
  \E t \in Threads :
    /\ threads[t].pc = "call_handlers"
    /\ threads[t].cb.pc = "retain_type"
    /\ locks.type_handlers.readers = {t}
    /\ \A u \in Threads \ {t} : threads[u].pc = "idle"

\* C22: when no callback calls back into the router or its endpoints and
\* every callback returns, no interleaving of handle_message calls through
\* the clones, create_endpoint calls, drops, callback registrations and
\* filter additions reaches a state in which the started operations block
\* one another, and every started operation completes.
C22_EveryOperationCompletes ==
  /\ []((\E t \in Threads : threads[t].pc # "idle")
          => (\E t \in Threads : ENABLED Continue(t)))
  /\ \A t \in Threads : (threads[t].pc # "idle") ~> (threads[t].pc = "idle")

\* A multi-recipient Broadcast runs a callback under its read guard of the
\* type map while the other thread, inside a drop or a create_endpoint, has
\* claimed that lock and waits for the guard to go.
C22_Witness ==
  \E t \in Threads, u \in Threads :
    /\ t # u
    /\ threads[t].pc = "call_handlers" /\ threads[t].cb.pc = "on_message"
    /\ t \in locks.type_handlers.readers
    /\ threads[u].pc \in {"retain_type", "push_type"}
    /\ locks.type_handlers.claimed = u

\* ---- C31 ------------------------------------------------------------------
\* C31: an Any(Random) dispatch mutates no shared registry state: after it
\* the round-robin cursors, the handler lists and the identity map are what
\* they were before, so the round-robin rotation goes on from the same
\* cursor whatever Random dispatches come in between.
C31_RandomMutatesNothing ==
  [][(IsDispatchStep /\ LastDest' = DestAny("Random")) =>
       /\ type_handlers' = type_handlers
       /\ endpoints' = endpoints
       /\ static_endpoints' = static_endpoints]_vars

\* An Any(Random) dispatch ran a callback for a type whose rotation was
\* under way (cursor not 0) and that has two endpoints.
C31_Witness ==
  /\ last # <<>>
  /\ LastDest = DestAny("Random")
  /\ LastCall.msg.source = <<>>
  /\ LastType \in DOMAIN LastCall.pre
  /\ Len(PreHandlers) = 2
  /\ LastCall.pre[LastType].next_index # 0
  /\ Len(LastCall.invoked) = 1

\* ---- C32 ------------------------------------------------------------------
\* The Any(Random) messages that can be dispatched to a type with an entry.
RandomMessages ==
  {m \in Messages : /\ Message_dest(m) = DestAny("Random")
                    /\ payload_type(m) \in DOMAIN type_handlers}

\* handle_message(m) can select the i-th handle registered for m's type.
CanSelect(m, i) ==
  ENABLED (/\ HandleMessage(m)
           /\ last'[1].called = <<type_handlers[payload_type(m)].handlers[i].endpoint_id>>)

\* The endpoint a Random dispatch selected was registered for the type.
SelectedIsRegistered ==
  (last # <<>> /\ LastDest = DestAny("Random") /\ LastCall.called # <<>>) =>
    /\ Len(LastCall.called) = 1
    /\ \E i \in 1 .. Len(PreHandlers) : PreHandlers[i].endpoint_id = LastCall.called[1]

\* C32 as stated: every Any(Random) dispatch selects an endpoint registered
\* for the payload type, and on every call each registered endpoint of the
\* type can be the one selected.
C32_Original ==
  /\ SelectedIsRegistered
  /\ last = <<>> =>
       \A m \in RandomMessages :
         \A i \in 1 .. Len(type_handlers[payload_type(m)].handlers) : CanSelect(m, i)

\* C32 amended: the selected endpoint is always registered for the type;
\* when the message has no source tag, or no filter of the type's endpoints
\* matches its tag, each registered endpoint can be the one selected, in
\* every state the registry reaches (whatever was selected before); when a
\* filter matches, the first matching endpoint is the only possible one.
C32_RandomSelection ==
  /\ SelectedIsRegistered
  /\ last = <<>> =>
       \A m \in RandomMessages :
         LET handlers == type_handlers[payload_type(m)].handlers
             hit == IF m.source = <<>> THEN 0 ELSE FirstMatch(inner, handlers, m)
         IN \A i \in 1 .. Len(handlers) : CanSelect(m, i) <=> (hit = 0 \/ hit = i)

\* A Random dispatch without source tag selected the second of two
\* endpoints although the first one has a filter.
C32_Witness ==
  /\ last # <<>>
  /\ LastDest = DestAny("Random")
  /\ LastCall.msg.source = <<>>
  /\ LastType \in DOMAIN LastCall.pre
  /\ Len(PreHandlers) = 2
  /\ inner[PreHandlers[1].endpoint_id].filters # <<>>
  /\ LastCall.called = <<PreHandlers[2].endpoint_id>>

\* ---- C38 ------------------------------------------------------------------
\* C38 as stated: the cursor advances by exactly one after each RoundRobin
\* selection, wrapping at the integer width, the selected index is the
\* cursor modulo the number of handles, and N consecutive selections visit
\* every one of the N handles once, also when the cursor wraps around in
\* between and N does not divide 2^width.
C38_Original ==
  HasWindow =>
    LET N == Len(RunHandlers) IN
    /\ \A k \in 1 .. N :
         RunWindow[k].id = RunHandlers[(RunWindow[k].cursor % N) + 1].endpoint_id
    /\ \A k \in 1 .. N - 1 :
         RunWindow[k + 1].cursor = (RunWindow[k].cursor + 1) % (2 ^ UsizeBits)
    /\ type_handlers[RunType].next_index = (RunWindow[N].cursor + 1) % (2 ^ UsizeBits)
    /\ Cardinality({RunWindow[k].id : k \in 1 .. N}) = N

\* ---- C33 ------------------------------------------------------------------
\* Position of endpoint id in the handler list of the run's type.
RunPos(id) == CHOOSE i \in 1 .. Len(RunHandlers) : RunHandlers[i].endpoint_id = id

\* A step that creates or drops an endpoint and leaves an entry for type M.
IsLifecycleStepKeeping(M) ==
  /\ owned' # owned
  /\ M \in DOMAIN type_handlers
  /\ M \in DOMAIN type_handlers'

\* C33 as stated: creating or dropping an endpoint of a type leaves the
\* cursor of the type's entry as it is, and for a fixed set of N endpoints,
\* whatever the cursor an earlier history has left, N consecutive source-less
\* Any(RoundRobin) dispatches invoke N distinct endpoints, each one the
\* successor of the one before in cyclic registration order.
C33_Original ==
  /\ [](HasWindow =>
         LET N == Len(RunHandlers) IN
         /\ Cardinality({RunWindow[k].id : k \in 1 .. N}) = N
         /\ \A k \in 1 .. N - 1 :
              RunPos(RunWindow[k + 1].id) = (RunPos(RunWindow[k].id) % N) + 1)
  /\ [][\A M \in PayloadTypes :
          IsLifecycleStepKeeping(M) =>
            type_handlers'[M].next_index = type_handlers[M].next_index]_vars

\* ---- C34 ------------------------------------------------------------------
\* The latest call was a source-less Any(RoundRobin) dispatch that selected
\* endpoint id.
RoundRobinSelected(id) ==
  /\ last # <<>>
  /\ LastDest = DestAny("RoundRobin")
  /\ LastCall.msg.source = <<>>
  /\ LastCall.called = <<id>>

IsRemovalOf(id) == DropEndpoint(id) \/ RouterRemoveEndpoint(id)

\* Endpoint id has a registration: an identity entry or a handle in a list.
HasRegistration(id) ==
  \/ id \in DOMAIN endpoints
  \/ \E M \in DOMAIN type_handlers :
       \E i \in 1 .. Len(type_handlers[M].handlers) :
         type_handlers[M].handlers[i].endpoint_id = id

\* List after is list before without the handles of id, the others in the
\* relative order they had.
KeepsOrderWithout(before, after, id) ==
  /\ Range(after) = {h \in Range(before) : h.endpoint_id # id}
  /\ Len(after) = Cardinality(Range(after))
  /\ \A i, j \in 1 .. Len(after) :
       i < j => \E a, b \in 1 .. Len(before) :
                  a < b /\ before[a] = after[i] /\ before[b] = after[j]

\* C35: removing an endpoint, by dropping it or by remove_endpoint, changes
\* only that endpoint's registrations: every other identity entry stays as it
\* was, the remaining handles of its payload type keep their relative order,
\* the entry and the cursor of every payload type it has no handle in stay as
\* they were, and removing an id that is not registered (an unknown id, or a
\* second removal) changes neither map.
C35_RemovalChangesOnlyItsOwn ==
  [][\A id \in 0 .. MaxWide :
       IsRemovalOf(id) =>
         /\ DOMAIN endpoints' = DOMAIN endpoints \ {id}
         /\ \A k \in DOMAIN endpoints' : endpoints'[k] = endpoints[k]
         /\ DOMAIN type_handlers' \subseteq DOMAIN type_handlers
         /\ \A M \in DOMAIN type_handlers :
              IF \A i \in 1 .. Len(type_handlers[M].handlers) :
                   type_handlers[M].handlers[i].endpoint_id # id
                THEN M \in DOMAIN type_handlers' /\ type_handlers'[M] = type_handlers[M]
                ELSE KeepsOrderWithout(
                       type_handlers[M].handlers,
                       IF M \in DOMAIN type_handlers'
                         THEN type_handlers'[M].handlers ELSE <<>>,
                       id)
         /\ ~HasRegistration(id) =>
              endpoints' = endpoints /\ type_handlers' = type_handlers]_vars

\* An endpoint was removed through the router and is still held by its
\* owner, so that its drop is a second removal; of the other two endpoints
\* one is of each payload type, and the cursor of BoxU32 has moved.
C35_Witness ==
  /\ \E id \in owned : ~HasRegistration(id)
  /\ Cardinality(DOMAIN endpoints) = 2
  /\ DOMAIN type_handlers = PayloadTypes
  /\ type_handlers["BoxU32"].next_index # 0

\* ---------------------------------------------------------------- C36
\* The message of the latest dispatch carries a tag that is not of the
\* router's source type.
LastHasForeignSource ==
  LastCall.msg.source # <<>> /\ LastCall.msg.source[1].ty # RouterSource

\* The latest dispatch found a recipient: the type entry of the payload type
\* for Any and Broadcast, the identity entry of the address for Endpoint.
LastFoundRecipient ==
  IF LastDest.kind = "Endpoint"
    THEN LastDest.addr \in DOMAIN endpoints
    ELSE LastType \in DOMAIN LastCall.pre

\* C36: handle_message on a message whose source tag is not of the router's
\* source type fails with 'Message source downcast failed' whenever a
\* recipient is found, before any dispatch closure or callback has run; when
\* no recipient exists it returns None without failing.
C36_ForeignSourceFails ==
  (last # <<>> /\ LastHasForeignSource) =>
    /\ LastCall.called = <<>>
    /\ LastCall.invoked = <<>>
    /\ LastCall.result = <<>>
    /\ LastCall.panic = IF LastFoundRecipient THEN PanicSourceDowncast ELSE NoPanic

\* A broadcastable message with the foreign tag, broadcast to two endpoints
\* that both have a callback, has failed on the source.
C36_Witness ==
  /\ last # <<>>
  /\ LastHasForeignSource
  /\ LastDest.kind = "Broadcast"
  /\ LastCall.msg.payload.flavor = "Broadcast"
  /\ LastType \in DOMAIN LastCall.pre
  /\ Len(PreHandlers) = 2
  /\ AllHaveCallback(PreHandlers)
  /\ LastCall.panic = PanicSourceDowncast

\* ---------------------------------------------------------------- C37
\* C37: in a Broadcast to M >= 2 endpoints the handlers are called one after
\* the other in registration order (what was called, and what ran, is a
\* prefix of the registration order), each with a duplicate of the envelope;
\* when the message can be duplicated and every endpoint has a callback, the
\* returned list has M elements and its i-th element is the return value of
\* the i-th registered endpoint, so that registry and message fix the list.
C37_BroadcastInOrder ==
  (/\ last # <<>>
   /\ LastDest.kind = "Broadcast"
   /\ LastType \in DOMAIN LastCall.pre
   /\ Len(PreHandlers) >= 2) =>
    LET ids == HandlerIds(PreHandlers) IN
      /\ Len(LastCall.called) <= Len(ids)
      /\ LastCall.called = SubSeq(ids, 1, Len(LastCall.called))
      /\ Len(InvokedIds) <= Len(ids)
      /\ InvokedIds = SubSeq(ids, 1, Len(InvokedIds))
      /\ \A j \in 1 .. Len(LastCall.invoked) :
           /\ LastCall.invoked[j].is_clone
           /\ LastCall.invoked[j].payload = LastCall.msg.payload
      /\ (LastCall.msg.payload.flavor = "Broadcast" /\ AllHaveCallback(PreHandlers)) =>
           /\ LastCall.panic = NoPanic
           /\ InvokedIds = ids
           /\ LastCall.result = << [i \in 1 .. Len(ids) |-> ExpectedReturn(ids[i])] >>

\* A broadcast to three endpoints whose callbacks return different values has
\* answered with a list whose first two elements differ.
C37_Witness ==
  /\ last # <<>>
  /\ LastDest.kind = "Broadcast"
  /\ LastType \in DOMAIN LastCall.pre
  /\ Len(PreHandlers) = 3
  /\ AllHaveCallback(PreHandlers)
  /\ LastCall.panic = NoPanic
  /\ LastCall.result # <<>>
  /\ Len(LastCall.result[1]) = 3
  /\ LastCall.result[1][1] # LastCall.result[1][2]
====
